---- MODULE Spec2Model ----
(***************************************************************************)
(* kuk: the interactive board engine (src/src/tui/app.rs) over the entity  *)
(* model (src/src/model) and the storage layer (src/src/storage/store.rs). *)
(*                                                                         *)
(* One step of the model is one iteration of run_loop that reads a key:    *)
(* App::handle_key with everything it calls, gateway calls included.       *)
(* Indices (selected_col, selected_row, board_selected) are 0-based as in  *)
(* the source; sequences are 1-based, so element i of a Vec is s[i + 1].   *)
(* Strings the engine inspects (titles, buffers) are sequences of          *)
(* one-character strings; names (boards, columns) are atoms.               *)
(* Timestamps (created_at, updated_at) are left out.  Option<T> is a       *)
(* sequence of at most one element: None is <<>>, Some(x) is <<x>>.        *)
(***************************************************************************)
EXTENDS Integers, Sequences, FiniteSets, TLC

\* ---------------------------------------------------------------- bounds
\* Cards created in one session (fresh ULIDs handed out).
MaxCards == 1
\* Largest order value the model lets a card take.
MaxOrder == 3
\* Longest text typed into input_buf / search_buf.
MaxBuf == 1
\* Gateway calls that fail in one session.
MaxFaults == 1
\* How far a selection index may run away once it has left its range
\* (release build, after a wrapped subtraction).
MaxStray == 1
\* Key events handled in one session.
MaxKeys == 6
\* Command-line invocations in one run.
MaxCmds == 2
\* Longest card argument (id or number) given on the command line.
MaxToken == 2
\* Writes by another process during one interactive session.
MaxExternal == 1
\* Requests the server process handles at once.
MaxHandlers == 2
\* Requests the server process receives in one run.
MaxRequests == 2

\* usize::MAX.  The checker's integers are 32 bits wide, so the 64-bit
\* all-ones value is represented by the largest integer available; the
\* model only compares it with list lengths and subtracts MaxStray from it.
UsizeMax == 2147483647

\* The characters a key event can carry into a text buffer.
Chars == {"a", "B"}

\* ------------------------------------------------------------ strings
\* char::to_lowercase on the model's alphabet.
LowerChar(c) == IF c = "B" THEN "b" ELSE c

\* str::to_lowercase
to_lowercase(s) == [i \in 1..Len(s) |-> LowerChar(s[i])]

\* str::contains: needle occurs as a contiguous substring of hay.
contains(hay, needle) ==
    \E i \in 0..(Len(hay) - Len(needle)) :
        SubSeq(hay, i + 1, i + Len(needle)) = needle

\* String::pop: drop the last character, nothing on an empty string.
pop(s) == IF Len(s) = 0 THEN s ELSE SubSeq(s, 1, Len(s) - 1)

\* ------------------------------------------------------- entity model
\* Option<u32>::None for a WIP limit (limits themselves are not negative).
NoLimit == -1

\* Column { name, wip_limit }
Column(n, w) == [name |-> n, wip_limit |-> w]

\* Option::None and Option::Some.
None == <<>>
Some(x) == <<x>>

\* Card::new(title, column) with the ULID drawn by the caller: nothing
\* optional set, no label, no metadata, order 0, not archived.
Card_new(id, title, column) ==
    [id |-> id, title |-> title, description |-> None, column |-> column,
     order |-> 0, assignee |-> None, labels |-> <<>>, due |-> None,
     metadata |-> <<>>, archived |-> FALSE]

\* Board::default_board
default_board ==
    [name |-> "default",
     columns |-> <<Column("todo", NoLimit), Column("doing", NoLimit),
                   Column("done", NoLimit)>>,
     cards |-> <<>>]

\* Maximum of a non-empty set of naturals.
SetMax(S) == CHOOSE m \in S : \A x \in S : x <= m

\* Mutant of next_order: archived cards count too.
next_order_CountsArchived(b, column) ==
    LET os == {b.cards[i].order : i \in
                 {j \in 1..Len(b.cards) : b.cards[j].column = column}}
    IN  IF os = {} THEN 0 ELSE SetMax(os) + 1

\* Board::next_order: one more than the largest order among the
\* non-archived cards of the column, 0 when there is none.
next_order(b, column) ==
    LET os == {b.cards[i].order : i \in
                 {j \in 1..Len(b.cards) :
                     b.cards[j].column = column /\ ~b.cards[j].archived}}
    IN  IF os = {} THEN 0 ELSE SetMax(os) + 1

\* Index (1-based) of the first card with the id, 0 when there is none:
\* the position Board::find_card / find_card_mut stop at.
find_card_pos(b, id) ==
    IF \E i \in 1..Len(b.cards) : b.cards[i].id = id
    THEN CHOOSE i \in 1..Len(b.cards) :
            /\ b.cards[i].id = id
            /\ \A j \in 1..(i - 1) : b.cards[j].id # id
    ELSE 0

\* Insert x into a sequence sorted by order, after every element whose
\* order is not larger (slice::sort_by_key is stable).
RECURSIVE InsertByOrder(_, _)
InsertByOrder(s, x) ==
    IF s = <<>> THEN <<x>>
    ELSE IF Head(s).order <= x.order
         THEN <<Head(s)>> \o InsertByOrder(Tail(s), x)
         ELSE <<x>> \o s

\* sort_by_key(|c| c.order), stable.
RECURSIVE sort_by_order(_)
sort_by_order(s) ==
    IF s = <<>> THEN <<>>
    ELSE InsertByOrder(sort_by_order(SubSeq(s, 1, Len(s) - 1)), s[Len(s)])

\* --------------------------------------------------- persisted documents
\* Column as serde writes it: wip_limit is skipped when it is None.
ColumnToDoc(c) ==
    IF c.wip_limit = NoLimit THEN [name |-> c.name]
    ELSE [name |-> c.name, wip_limit |-> c.wip_limit]

\* Column as serde reads it: a missing wip_limit defaults to None.
ColumnFromDoc(d) ==
    IF "wip_limit" \in DOMAIN d THEN Column(d.name, d.wip_limit)
    ELSE Column(d.name, NoLimit)

\* The fields of Card (timestamps apart), and those among them that are
\* Option<_> with skip_serializing_if = "Option::is_none".
CardFields ==
    {"id", "title", "description", "column", "order", "assignee", "labels",
     "due", "metadata", "archived"}
SkippedWhenNone == {"description", "assignee", "due"}

\* Mutant of CardToDoc: the archived flag is not written.
CardToDoc_SkipsArchived(c) ==
    [f \in {g \in CardFields \ {"archived"} :
                ~(g \in SkippedWhenNone /\ c[g] = None)} |->
        IF f \in SkippedWhenNone THEN c[f][1] ELSE c[f]]

\* Card as serde writes it: an optional field is skipped when it is None
\* and written as its bare value otherwise; every other field is written.
CardToDoc(c) ==
    [f \in {g \in CardFields : ~(g \in SkippedWhenNone /\ c[g] = None)} |->
        IF f \in SkippedWhenNone THEN c[f][1] ELSE c[f]]

\* Card as serde reads it: a missing optional field is None, missing
\* labels and metadata are empty, a missing archived is false
\* (#[serde(default)]); id, title, column and order are required.
CardFromDoc(d) ==
    [f \in CardFields |->
        IF f \in SkippedWhenNone
        THEN IF f \in DOMAIN d THEN Some(d[f]) ELSE None
        ELSE IF f \in DOMAIN d THEN d[f]
        ELSE IF f = "archived" THEN FALSE
        ELSE <<>>]

\* serde_json::to_string_pretty(&board): the document Store::write_json
\* puts on disk.
ToDoc(b) ==
    [name |-> b.name,
     columns |-> [i \in 1..Len(b.columns) |-> ColumnToDoc(b.columns[i])],
     cards |-> [i \in 1..Len(b.cards) |-> CardToDoc(b.cards[i])]]

\* serde_json::from_str::<Board>(&data)
FromDoc(d) ==
    [name |-> d.name,
     columns |-> [i \in 1..Len(d.columns) |-> ColumnFromDoc(d.columns[i])],
     cards |-> [i \in 1..Len(d.cards) |-> CardFromDoc(d.cards[i])]]

\* RepoConfig::default
RepoConfig_default == [version |-> "0.1.0", default_board |-> "default"]

\* The names of the board documents of the model, in the order
\* Vec<String>::sort leaves them.
NameOrder == <<"backlog", "default", "empty">>

\* The default board with three cards on it, as the engine's tests set it
\* up (tests::test_app): one card in todo, two in doing at orders 0 and 1.
StoredDefault ==
    [default_board EXCEPT !.cards =
       << [Card_new(1, <<"a">>, "todo") EXCEPT !.order = 0],
          [Card_new(2, <<"B">>, "doing") EXCEPT !.order = 0],
          [Card_new(3, <<"a">>, "doing") EXCEPT !.order = 1] >>]

\* Two more stored boards.  The HTTP create_board passes the request's
\* column list to Store::create_board unchecked, so a board's column list
\* may repeat a name or be empty.
StoredBacklog ==
    [name |-> "backlog",
     columns |-> <<Column("ideas", 1), Column("ideas", NoLimit)>>,
     cards |-> <<Card_new(4, <<"a">>, "ideas")>>]
StoredEmpty == [name |-> "empty", columns |-> <<>>, cards |-> <<>>]

\* Cards the stored boards hold when the session starts: their ULIDs are
\* taken, a new card gets a later one.
StoredCards == Len(StoredDefault.cards) + Len(StoredBacklog.cards)

\* ------------------------------------------------------------- state
VARIABLES
    board,            \* App.board
    mode,             \* App.mode
    selected_col,     \* App.selected_col
    selected_row,     \* App.selected_row
    input_buf,        \* App.input_buf
    search_buf,       \* App.search_buf
    search_active,    \* App.search_active
    message,          \* App.message
    should_quit,      \* App.should_quit
    pending_confirm,  \* App.pending_confirm
    pending_g,        \* App.pending_g
    board_list,       \* App.board_list
    board_selected,   \* App.board_selected
    disk,             \* .kuk/boards/<name>.json, by board name
    config,           \* .kuk/config.json
    next_id,          \* the next fresh card identifier
    faults,           \* gateway calls that have failed so far
    save_failed,      \* some save_board call has failed in this session
    panicked,         \* a handler step has panicked: the process is gone
    keys,             \* key events handled so far
    step,             \* what the last key handled did: the operation,
                      \* the card it acted on, the gateway calls it made
    cli,              \* the last command-line invocation and its outcome
    commands,         \* command-line invocations so far
    exists,           \* which of .kuk/, .kuk/config.json and the entry in
                      \* the global index exist (board files: DOMAIN disk)
    result,           \* the last direct gateway call and what it returned
    server            \* the server process: the store's mutex, each
                      \* handler's position, request and loaded board,
                      \* and the requests answered so far

app == <<board, mode, selected_col, selected_row, input_buf, search_buf,
         search_active, message, should_quit, pending_confirm, pending_g,
         board_list, board_selected>>
store == <<disk, config>>
vars == <<board, mode, selected_col, selected_row, input_buf, search_buf,
          search_active, message, should_quit, pending_confirm, pending_g,
          board_list, board_selected, disk, config, next_id, faults,
          save_failed, panicked, keys, step, cli, commands, exists, result,
          server>>

\* Option<String> message: None, or a format string with its argument.
NoMessage == [text |-> "None", arg |-> <<>>]
Msg(text, arg) == [text |-> text, arg |-> arg]

\* Option<ConfirmAction>
NoConfirm == "None"

\* Option<String> card id: ids are positive, 0 stands for None.
NoCard == 0

\* One gateway call of a step.
Call(op, ok) == [op |-> op, ok |-> ok]

\* The record of a handled key: the operation it performed ("none" for a
\* key that touches neither the cards nor the gateway), the card acted on
\* and the gateway calls made, in order.
Step(op, card, calls) == [op |-> op, card |-> card, calls |-> calls]
Idle == Step("none", NoCard, <<>>)

\* The record of a card action key that returned early: nothing to act on.
Noop == Step("noop", NoCard, <<>>)

\* ------------------------------------------------------ view helpers
\* Mutant of column_cards: the filter compares without folding case.
column_cards_CaseSensitive(b, active, buf, col_idx) ==
    IF col_idx >= Len(b.columns) THEN <<>>
    ELSE LET col_name == b.columns[col_idx + 1].name
             mine(c) == c.column = col_name /\ ~c.archived
             cards == sort_by_order(SelectSeq(b.cards, mine))
             hit(c) == contains(c.title, buf)
         IN  IF active /\ buf # <<>> THEN SelectSeq(cards, hit) ELSE cards

\* App::column_cards on an explicit board and filter state.
column_cards(b, active, buf, col_idx) ==
    IF col_idx >= Len(b.columns) THEN <<>>
    ELSE LET col_name == b.columns[col_idx + 1].name
             mine(c) == c.column = col_name /\ ~c.archived
             cards == sort_by_order(SelectSeq(b.cards, mine))
             query == to_lowercase(buf)
             hit(c) == contains(to_lowercase(c.title), query)
         IN  IF active /\ buf # <<>> THEN SelectSeq(cards, hit) ELSE cards

\* App::current_card_id on an explicit state.
current_card_id(b, active, buf, col, row) ==
    LET cards == column_cards(b, active, buf, col)
    IN  IF row < Len(cards) THEN cards[row + 1].id ELSE NoCard

\* App::clamp_row: the row it leaves.
clamp_row(b, active, buf, col, row) ==
    LET count == Len(column_cards(b, active, buf, col))
    IN  IF count = 0 THEN 0
        ELSE IF row >= count THEN count - 1
        ELSE row

\* The visible cards of the selected column, and the selected card.
Visible == column_cards(board, search_active, search_buf, selected_col)
Current ==
    current_card_id(board, search_active, search_buf, selected_col,
                    selected_row)

\* ----------------------------------------------------------- gateway
\* Mutant of Store_save_board: reports success without writing.
Store_save_board_Skipped(d, b) == d

\* Mutant of Store_save_board: the cards of the previous document that
\* the saved board does not hold are kept.
Store_save_board_Merges(d, b) ==
    LET old == FromDoc(d[b.name])
        kept == SelectSeq(old.cards, LAMBDA c : find_card_pos(b, c.id) = 0)
    IN  [d EXCEPT ![b.name] = ToDoc([b EXCEPT !.cards = b.cards \o kept])]

\* The names that have a board file (board_path(name).exists()).
BoardFiles(d) == IF d = <<>> THEN {} ELSE DOMAIN d

\* Store::save_board: the whole document for board.name is replaced, or
\* created when there is none.
Store_save_board(d, b) ==
    [n \in BoardFiles(d) \cup {b.name} |->
        IF n = b.name THEN ToDoc(b) ELSE d[n]]

\* Store::load_board
Store_load_board(d, name) == FromDoc(d[name])

\* Store::list_boards: the stems of the board files, sorted.
Store_list_boards(d) ==
    SelectSeq(NameOrder, LAMBDA n : n \in BoardFiles(d))

\* A gateway call may fail (I/O error) while the fault budget lasts.
MayFail(ok) == ok \/ faults < MaxFaults

\* Mutant of SaveBoard: the document is written even when the call
\* reports a failure.
SaveBoard_WrittenOnFailure(ok, b) ==
    /\ MayFail(ok)
    /\ disk' = Store_save_board(disk, b)
    /\ faults' = IF ok THEN faults ELSE faults + 1
    /\ save_failed' = (save_failed \/ ~ok)
    /\ UNCHANGED config

\* App::save_board with outcome ok: on failure nothing is written.
SaveBoard(ok, b) ==
    /\ MayFail(ok)
    /\ disk' = IF ok THEN Store_save_board(disk, b) ELSE disk
    /\ faults' = IF ok THEN faults ELSE faults + 1
    /\ save_failed' = (save_failed \/ ~ok)
    /\ UNCHANGED config

\* A step that calls no gateway operation.
NoGateway == UNCHANGED <<disk, config, faults, save_failed>>

\* The input loop is still reading keys.
Running == ~should_quit /\ ~panicked /\ keys < MaxKeys

\* A command-line invocation: the command, its card argument, the card
\* id resolve_card_id returned (NoCard before it is called or for None),
\* the error the command ended with ("none" for Ok) and what it printed
\* of the board (the listing of `kuk list`).
Cli(cmd, token, resolved, err, out) ==
    [cmd |-> cmd, token |-> token, resolved |-> resolved, err |-> err,
     out |-> out]
NoCommand == Cli("none", <<>>, NoCard, "none", <<>>)

\* What Store::init creates besides the default board's file: the
\* directory .kuk/ (with boards/), the configuration file, and the
\* repository's entry in the global index.
Paths == {".kuk", "config.json", "index.json"}

\* A gateway call made directly: the method, its arguments (a record, by
\* parameter name), the error it returned ("none" for Ok) and the value
\* inside Ok (a record holding it, Unit for ()).
Unit == [unit |-> TRUE]
Result(op, arg, err, value) ==
    [op |-> op, arg |-> arg, err |-> err, value |-> value]
NoResult == Result("none", Unit, "none", Unit)

\* The handler tasks of the server process that may run at once.
Handlers == 1..MaxHandlers

\* A request to a card endpoint: the operation, the {id} of the path, the
\* column (`column` of add, `to` of move), the optional board name of the
\* body and the action of a label request.
Request(op, id, column, name, arg) ==
    [op |-> op, id |-> id, column |-> column, board |-> name, arg |-> arg]
NoRequest == Request("none", <<>>, "", None, "")

\* serve(): Arc::new(Mutex::new(store)), no request in flight.  lock is
\* the set of handlers holding the MutexGuard, local the board a handler
\* has loaded, log the requests answered, in the order of the answers.
ServerIdle ==
    [lock |-> {},
     pc |-> [p \in Handlers |-> "idle"],
     req |-> [p \in Handlers |-> NoRequest],
     local |-> [p \in Handlers |-> None],
     log |-> <<>>]

\* One more key event has been read (by the interactive session: no
\* command-line invocation is part of it).
Key == keys' = keys + 1 /\ UNCHANGED <<cli, commands, exists, result, server>>

\* ---------------------------------------------------------------- Init
\* After `kuk init` (default config), with the stored boards, and
\* App::new: the board named by the config is loaded.
Init ==
    /\ config = RepoConfig_default
    /\ disk = [n \in {"backlog", "default", "empty"} |->
                 IF n = "default" THEN ToDoc(StoredDefault)
                 ELSE IF n = "backlog" THEN ToDoc(StoredBacklog)
                 ELSE ToDoc(StoredEmpty)]
    /\ board = Store_load_board(disk, config.default_board)
    /\ mode = "Normal"
    /\ selected_col = 0
    /\ selected_row = 0
    /\ input_buf = <<>>
    /\ search_buf = <<>>
    /\ search_active = FALSE
    /\ message = NoMessage
    /\ should_quit = FALSE
    /\ pending_confirm = NoConfirm
    /\ pending_g = FALSE
    /\ board_list = <<>>
    /\ board_selected = 0
    /\ next_id = StoredCards + 1
    /\ keys = 0
    /\ faults = 0
    /\ save_failed = FALSE
    /\ panicked = FALSE
    /\ step = Idle
    /\ cli = NoCommand
    /\ commands = 0
    /\ exists = Paths
    /\ result = NoResult
    /\ server = ServerIdle

\* ------------------------------------------------ Normal mode: navigation
\* What a step that touches neither the board nor the gateway leaves alone.
UiOnly ==
    /\ Key
    /\ NoGateway
    /\ UNCHANGED <<board, next_id, panicked>>

\* handle_normal, 'q'
NormalQuit ==
    /\ Running /\ mode = "Normal"
    /\ should_quit' = TRUE
    /\ step' = Idle
    /\ UiOnly
    /\ UNCHANGED <<mode, selected_col, selected_row, input_buf, search_buf,
                   search_active, message, pending_confirm, pending_g,
                   board_list, board_selected>>

\* handle_normal, 'j' | Down
NormalDown ==
    /\ Running /\ mode = "Normal"
    /\ pending_g' = FALSE
    /\ LET count == Len(Visible)
       IN  selected_row' = IF count > 0 /\ selected_row < count - 1
                           THEN selected_row + 1 ELSE selected_row
    /\ step' = Idle
    /\ UiOnly
    /\ UNCHANGED <<mode, selected_col, input_buf, search_buf, search_active,
                   message, should_quit, pending_confirm, board_list,
                   board_selected>>

\* handle_normal, 'k' | Up.  A row that has left its range (wrapped to
\* usize::MAX) is followed for MaxStray decrements only.
NormalUp ==
    /\ Running /\ mode = "Normal"
    /\ selected_row <= StoredCards + MaxCards
       \/ selected_row > UsizeMax - MaxStray
    /\ pending_g' = FALSE
    /\ selected_row' = IF selected_row > 0 THEN selected_row - 1
                       ELSE selected_row
    /\ step' = Idle
    /\ UiOnly
    /\ UNCHANGED <<mode, selected_col, input_buf, search_buf, search_active,
                   message, should_quit, pending_confirm, board_list,
                   board_selected>>

\* handle_normal, 'h' | Left
NormalLeft ==
    /\ Running /\ mode = "Normal"
    /\ pending_g' = FALSE
    /\ IF selected_col > 0
       THEN /\ selected_col' = selected_col - 1
            /\ selected_row' = clamp_row(board, search_active, search_buf,
                                         selected_col - 1, selected_row)
       ELSE UNCHANGED <<selected_col, selected_row>>
    /\ step' = Idle
    /\ UiOnly
    /\ UNCHANGED <<mode, input_buf, search_buf, search_active, message,
                   should_quit, pending_confirm, board_list, board_selected>>

\* An integer overflow panics when the build checks overflow (the debug
\* profile) and wraps otherwise (the release profile): either outcome.
OverflowChecks == BOOLEAN

\* handle_normal, 'l' | Right.  `columns.len() - 1` on a board without
\* columns overflows: a panic, or usize::MAX (and then the column index
\* runs to the right, followed for MaxStray steps past the default
\* board's width).
NormalRight ==
    /\ Running /\ mode = "Normal"
    /\ step' = Idle
    /\ Key
    /\ NoGateway
    /\ UNCHANGED <<board, next_id>>
    /\ UNCHANGED <<mode, input_buf, search_buf, search_active, message,
                   should_quit, pending_confirm, board_list, board_selected>>
    /\ pending_g' = FALSE
    /\ \E checked \in OverflowChecks :
         LET overflow == Len(board.columns) = 0
             last == IF overflow THEN UsizeMax ELSE Len(board.columns) - 1
         IN  IF overflow /\ checked
             THEN /\ panicked' = TRUE
                  /\ UNCHANGED <<selected_col, selected_row>>
             ELSE /\ overflow \/ checked
                  /\ selected_col < Len(default_board.columns) + MaxStray
                  /\ panicked' = FALSE
                  /\ IF selected_col < last
                     THEN /\ selected_col' = selected_col + 1
                          /\ selected_row' =
                               clamp_row(board, search_active, search_buf,
                                         selected_col + 1, selected_row)
                     ELSE UNCHANGED <<selected_col, selected_row>>

\* Mutant of NormalG: a single 'g' jumps to the top.
NormalG_SingleJump ==
    /\ Running /\ mode = "Normal"
    /\ selected_row' = 0
    /\ pending_g' = FALSE
    /\ step' = Idle
    /\ UiOnly
    /\ UNCHANGED <<mode, selected_col, input_buf, search_buf, search_active,
                   message, should_quit, pending_confirm, board_list,
                   board_selected>>

\* handle_normal, 'g': the second of two consecutive 'g' jumps to the top.
NormalG ==
    /\ Running /\ mode = "Normal"
    /\ IF pending_g
       THEN selected_row' = 0 /\ pending_g' = FALSE
       ELSE pending_g' = TRUE /\ UNCHANGED selected_row
    /\ step' = Idle
    /\ UiOnly
    /\ UNCHANGED <<mode, selected_col, input_buf, search_buf, search_active,
                   message, should_quit, pending_confirm, board_list,
                   board_selected>>

\* handle_normal, 'G'
NormalBigG ==
    /\ Running /\ mode = "Normal"
    /\ pending_g' = FALSE
    /\ LET count == Len(Visible)
       IN  selected_row' = IF count > 0 THEN count - 1 ELSE selected_row
    /\ step' = Idle
    /\ UiOnly
    /\ UNCHANGED <<mode, selected_col, input_buf, search_buf, search_active,
                   message, should_quit, pending_confirm, board_list,
                   board_selected>>

\* handle_normal, 'a': enter Insert with an empty buffer.
NormalAdd ==
    /\ Running /\ mode = "Normal"
    /\ pending_g' = FALSE
    /\ mode' = "Insert"
    /\ input_buf' = <<>>
    /\ message' = Msg("Add card (Enter to save, Esc to cancel):", <<>>)
    /\ step' = Idle
    /\ UiOnly
    /\ UNCHANGED <<selected_col, selected_row, search_buf, search_active,
                   should_quit, pending_confirm, board_list, board_selected>>

\* Mutant of NormalDelete: Confirm is entered whether or not a card is
\* selected.
NormalDelete_Unguarded ==
    /\ Running /\ mode = "Normal"
    /\ pending_g' = FALSE
    /\ mode' = "Confirm"
    /\ pending_confirm' = "Delete"
    /\ message' = Msg("Delete this card? (y/n)", <<>>)
    /\ step' = Idle
    /\ UiOnly
    /\ UNCHANGED <<selected_col, selected_row, input_buf, search_buf,
                   search_active, should_quit, board_list, board_selected>>

\* handle_normal, 'd': after a pending 'g' only the prefix is reset;
\* otherwise Confirm is entered when a card is selected.
NormalDelete ==
    /\ Running /\ mode = "Normal"
    /\ IF pending_g
       THEN /\ pending_g' = FALSE
            /\ UNCHANGED <<mode, pending_confirm, message>>
       ELSE /\ UNCHANGED pending_g
            /\ IF Current # NoCard
               THEN /\ mode' = "Confirm"
                    /\ pending_confirm' = "Delete"
                    /\ message' = Msg("Delete this card? (y/n)", <<>>)
               ELSE UNCHANGED <<mode, pending_confirm, message>>
    /\ step' = IF ~pending_g /\ Current = NoCard THEN Noop ELSE Idle
    /\ UiOnly
    /\ UNCHANGED <<selected_col, selected_row, input_buf, search_buf,
                   search_active, should_quit, board_list, board_selected>>

\* handle_normal, '/': enter Search with an empty, active filter.
NormalSearch ==
    /\ Running /\ mode = "Normal"
    /\ pending_g' = FALSE
    /\ mode' = "Search"
    /\ search_buf' = <<>>
    /\ search_active' = TRUE
    /\ message' = Msg("Search:", <<>>)
    /\ step' = Idle
    /\ UiOnly
    /\ UNCHANGED <<selected_col, selected_row, input_buf, should_quit,
                   pending_confirm, board_list, board_selected>>

\* handle_normal, Esc: drop the filter and re-clamp.
NormalEsc ==
    /\ Running /\ mode = "Normal"
    /\ pending_g' = FALSE
    /\ search_active' = FALSE
    /\ search_buf' = <<>>
    /\ message' = NoMessage
    /\ selected_row' = clamp_row(board, FALSE, <<>>, selected_col,
                                 selected_row)
    /\ step' = Idle
    /\ UiOnly
    /\ UNCHANGED <<mode, selected_col, input_buf, should_quit,
                   pending_confirm, board_list, board_selected>>

\* handle_normal, '?'
NormalHelp ==
    /\ Running /\ mode = "Normal"
    /\ pending_g' = FALSE
    /\ mode' = "Help"
    /\ step' = Idle
    /\ UiOnly
    /\ UNCHANGED <<selected_col, selected_row, input_buf, search_buf,
                   search_active, message, should_quit, pending_confirm,
                   board_list, board_selected>>

\* handle_normal, any other key
NormalOther ==
    /\ Running /\ mode = "Normal"
    /\ pending_g' = FALSE
    /\ step' = Idle
    /\ UiOnly
    /\ UNCHANGED <<mode, selected_col, selected_row, input_buf, search_buf,
                   search_active, message, should_quit, pending_confirm,
                   board_list, board_selected>>

\* ------------------------------------------- Normal mode: card actions
\* Mutant of move_card: the column changes, the order is kept.
move_card_KeepsOrder(b, id, to, order) ==
    LET pos == find_card_pos(b, id)
    IN  [b EXCEPT !.cards[pos].column = to]

\* The card found by id gets a new column and order (move_card_right /
\* move_card_left, the body of `if let Some(card) = find_card_mut`).
move_card(b, id, to, order) ==
    LET pos == find_card_pos(b, id)
    IN  [b EXCEPT !.cards[pos].column = to, !.cards[pos].order = order]

\* Mutant of hoist: the card trades places with the top card of its
\* column, the other siblings stay.
hoist_SwapsWithTop(b, id) ==
    LET pos == find_card_pos(b, id)
        column == b.cards[pos].column
        sib == {i \in 1..Len(b.cards) :
                  /\ b.cards[i].column = column
                  /\ ~b.cards[i].archived
                  /\ b.cards[i].id # id}
        top == {i \in sib : \A j \in sib : b.cards[i].order <= b.cards[j].order}
        swapped == [i \in 1..Len(b.cards) |->
                      IF i \in top
                      THEN [b.cards[i] EXCEPT !.order = b.cards[pos].order]
                      ELSE b.cards[i]]
    IN  [b EXCEPT !.cards = [swapped EXCEPT ![pos].order = 0]]

\* Mutant of hoist: the archived cards of the column move down too.
hoist_BumpsArchived(b, id) ==
    LET pos == find_card_pos(b, id)
        column == b.cards[pos].column
        bumped == [i \in 1..Len(b.cards) |->
                     IF b.cards[i].column = column /\ b.cards[i].id # id
                     THEN [b.cards[i] EXCEPT !.order = @ + 1]
                     ELSE b.cards[i]]
    IN  [b EXCEPT !.cards = [bumped EXCEPT ![pos].order = 0]]

\* Mutant of hoist: the card goes to order 0, its siblings stay.
hoist_KeepsSiblings(b, id) ==
    LET pos == find_card_pos(b, id)
    IN  [b EXCEPT !.cards[pos].order = 0]

\* hoist_card: every other non-archived card of the card's column moves
\* down by one, then the card goes to order 0.
hoist(b, id) ==
    LET pos == find_card_pos(b, id)
        column == b.cards[pos].column
        bumped == [i \in 1..Len(b.cards) |->
                     IF /\ b.cards[i].column = column
                        /\ ~b.cards[i].archived
                        /\ b.cards[i].id # id
                     THEN [b.cards[i] EXCEPT !.order = @ + 1]
                     ELSE b.cards[i]]
    IN  [b EXCEPT !.cards = [bumped EXCEPT ![pos].order = 0]]

\* Mutant of demote: the card takes the largest order of its column
\* instead of one more.
demote_ToMax(b, id) ==
    LET pos == find_card_pos(b, id)
        max_order == next_order(b, b.cards[pos].column)
    IN  [b EXCEPT !.cards[pos].order = max_order - 1]

\* demote_card: the card takes its column's next_order.
demote(b, id) ==
    LET pos == find_card_pos(b, id)
        max_order == next_order(b, b.cards[pos].column)
    IN  [b EXCEPT !.cards[pos].order = max_order]

\* Mutant of archive: the card is dropped from the collection.
archive_Removes(b, id) ==
    [b EXCEPT !.cards = SelectSeq(b.cards, LAMBDA c : c.id # id)]

\* archive_card: the archived flag is set.
archive(b, id) ==
    LET pos == find_card_pos(b, id)
    IN  [b EXCEPT !.cards[pos].archived = TRUE]

\* Mutant of delete: the card is archived, not removed.
delete_Archives(b, id) ==
    LET pos == find_card_pos(b, id)
    IN  [b EXCEPT !.cards[pos].archived = TRUE]

\* delete_current_card: cards.retain(|c| c.id != id)
delete(b, id) ==
    [b EXCEPT !.cards = SelectSeq(b.cards, LAMBDA c : c.id # id)]

\* What the card actions of Normal mode leave alone.
CardActionFrame ==
    /\ Key
    /\ UNCHANGED <<mode, selected_col, input_buf, search_buf, search_active,
                should_quit, pending_confirm, board_list, board_selected,
                config, next_id, panicked>>

\* Mutant of CardActionNoop: the early return still saves the board.
CardActionNoop_Saves ==
    /\ step' = Step("noop", NoCard, <<Call("save_board", TRUE)>>)
    /\ disk' = Store_save_board(disk, board)
    /\ faults' = faults + 1
    /\ UNCHANGED <<board, selected_row, message, save_failed>>

\* A card action pressed where it does nothing: no gateway call.
CardActionNoop ==
    /\ step' = Noop
    /\ UNCHANGED <<board, selected_row, message, disk, faults, save_failed>>

\* move_card_right / move_card_left once the neighbour column index is
\* known: the error of save_board is dropped (`let _ =`).
MoveTo(key, dest, ok) ==
    LET id == Current
        to == board.columns[dest + 1].name
        order == next_order(board, to)
        moved == move_card(board, id, to, order)
    IN  /\ order <= MaxOrder
        /\ board' = moved
        /\ SaveBoard(ok, moved)
        /\ message' = Msg("Moved -> ", <<board.columns[dest + 1].name>>)
        /\ selected_row' = clamp_row(moved, search_active, search_buf,
                                     selected_col, selected_row)
        /\ step' = Step(key, id, <<Call("save_board", ok)>>)

\* handle_normal, '>' | 'L'
NormalMoveRight ==
    /\ Running /\ mode = "Normal"
    /\ pending_g' = FALSE
    /\ CardActionFrame
    /\ IF selected_col + 1 >= Len(board.columns) \/ Current = NoCard
       THEN CardActionNoop
       ELSE \E ok \in BOOLEAN : MoveTo("move_right", selected_col + 1, ok)

\* handle_normal, '<' | 'H'
NormalMoveLeft ==
    /\ Running /\ mode = "Normal"
    /\ pending_g' = FALSE
    /\ CardActionFrame
    /\ IF selected_col = 0 \/ Current = NoCard
       THEN CardActionNoop
       ELSE \E ok \in BOOLEAN : MoveTo("move_left", selected_col - 1, ok)

\* handle_normal, 'K'
NormalHoist ==
    /\ Running /\ mode = "Normal"
    /\ pending_g' = FALSE
    /\ CardActionFrame
    /\ IF Current = NoCard
       THEN CardActionNoop
       ELSE \E ok \in BOOLEAN :
              LET id == Current
                  hoisted == hoist(board, id)
              IN  /\ \A i \in 1..Len(hoisted.cards) :
                         hoisted.cards[i].order <= MaxOrder
                  /\ board' = hoisted
                  /\ SaveBoard(ok, hoisted)
                  /\ selected_row' = 0
                  /\ message' = Msg("Hoisted to top.", <<>>)
                  /\ step' = Step("hoist", id,
                                  <<Call("save_board", ok)>>)

\* handle_normal, 'J'
NormalDemote ==
    /\ Running /\ mode = "Normal"
    /\ pending_g' = FALSE
    /\ CardActionFrame
    /\ IF Current = NoCard
       THEN CardActionNoop
       ELSE \E ok \in BOOLEAN :
              LET id == Current
                  demoted == demote(board, id)
                  count == Len(column_cards(demoted, search_active,
                                            search_buf, selected_col))
              IN  /\ \A i \in 1..Len(demoted.cards) :
                         demoted.cards[i].order <= MaxOrder
                  /\ board' = demoted
                  /\ SaveBoard(ok, demoted)
                  /\ selected_row' = IF count > 0 THEN count - 1
                                     ELSE selected_row
                  /\ message' = Msg("Demoted to bottom.", <<>>)
                  /\ step' = Step("demote", id,
                                  <<Call("save_board", ok)>>)

\* handle_normal, 'x'
NormalArchive ==
    /\ Running /\ mode = "Normal"
    /\ pending_g' = FALSE
    /\ CardActionFrame
    /\ IF Current = NoCard
       THEN CardActionNoop
       ELSE \E ok \in BOOLEAN :
              LET id == Current
                  title == board.cards[find_card_pos(board, id)].title
                  archived == archive(board, id)
              IN  /\ board' = archived
                  /\ message' = Msg("Archived: ", title)
                  /\ SaveBoard(ok, archived)
                  /\ selected_row' = clamp_row(archived, search_active,
                                               search_buf, selected_col,
                                               selected_row)
                  /\ step' = Step("archive", id,
                                  <<Call("save_board", ok)>>)

\* Mutant of NormalRefresh: the reload reports success but keeps the
\* in-memory board.
NormalRefresh_KeepsBoard ==
    /\ Running /\ mode = "Normal"
    /\ Key
    /\ pending_g' = FALSE
    /\ UNCHANGED <<mode, selected_col, input_buf, search_buf, search_active,
                   should_quit, pending_confirm, board_list, board_selected,
                   disk, config, save_failed, next_id, panicked>>
    /\ \E failed \in {"none", "load_config", "load_board"} :
         /\ MayFail(failed = "none")
         /\ faults' = IF failed = "none" THEN faults ELSE faults + 1
         /\ IF failed = "none"
            THEN LET loaded == Store_load_board(disk, config.default_board)
                 IN  /\ board' = board
                     /\ message' = Msg("Board reloaded.", <<>>)
                     /\ selected_row' =
                          clamp_row(loaded, search_active, search_buf,
                                    selected_col, selected_row)
            ELSE /\ message' = Msg("Reload failed: ", <<failed>>)
                 /\ UNCHANGED <<board, selected_row>>
         /\ step' = Step("refresh", NoCard,
                         IF failed = "load_config"
                         THEN <<Call("load_config", FALSE)>>
                         ELSE <<Call("load_config", TRUE),
                                Call("load_board", failed = "none")>>)

\* handle_normal, 'r': App::reload_board reads the config, then the board
\* the config names; `failed` is the call that fails, "none" if none does.
NormalRefresh ==
    /\ Running /\ mode = "Normal"
    /\ Key
    /\ pending_g' = FALSE
    /\ UNCHANGED <<mode, selected_col, input_buf, search_buf, search_active,
                   should_quit, pending_confirm, board_list, board_selected,
                   disk, config, save_failed, next_id, panicked>>
    /\ \E failed \in {"none", "load_config", "load_board"} :
         /\ MayFail(failed = "none")
         /\ faults' = IF failed = "none" THEN faults ELSE faults + 1
         /\ IF failed = "none"
            THEN LET loaded == Store_load_board(disk, config.default_board)
                 IN  /\ board' = loaded
                     /\ message' = Msg("Board reloaded.", <<>>)
                     /\ selected_row' =
                          clamp_row(loaded, search_active, search_buf,
                                    selected_col, selected_row)
            ELSE /\ message' = Msg("Reload failed: ", <<failed>>)
                 /\ UNCHANGED <<board, selected_row>>
         /\ step' = Step("refresh", NoCard,
                         IF failed = "load_config"
                         THEN <<Call("load_config", FALSE)>>
                         ELSE <<Call("load_config", TRUE),
                                Call("load_board", failed = "none")>>)

\* Vec::iter().position(|b| *b == name).unwrap_or(0)
position_or_0(list, name) ==
    IF \E i \in 1..Len(list) : list[i] = name
    THEN (CHOOSE i \in 1..Len(list) :
            list[i] = name /\ \A j \in 1..(i - 1) : list[j] # name) - 1
    ELSE 0

\* handle_normal, 'b': open_board_picker
NormalBoardPicker ==
    /\ Running /\ mode = "Normal"
    /\ Key
    /\ pending_g' = FALSE
    /\ UNCHANGED <<board, selected_col, selected_row, input_buf, search_buf,
                   search_active, should_quit, pending_confirm, disk, config,
                   save_failed, next_id, panicked>>
    /\ \E ok \in BOOLEAN :
         /\ MayFail(ok)
         /\ faults' = IF ok THEN faults ELSE faults + 1
         /\ IF ok
            THEN LET boards == Store_list_boards(disk)
                 IN  /\ board_list' = boards
                     /\ board_selected' = position_or_0(boards, board.name)
                     /\ mode' = "BoardPicker"
                     /\ message' =
                          Msg("Switch board (Enter to select, Esc to cancel):",
                              <<>>)
            ELSE /\ message' = Msg("Failed to list boards: ", <<"io">>)
                 /\ UNCHANGED <<board_list, board_selected, mode>>
         /\ step' = Step("open_picker", NoCard, <<Call("list_boards", ok)>>)

\* ---------------------------------------------------------- Insert mode
\* handle_insert, Esc
InsertEsc ==
    /\ Running /\ mode = "Insert"
    /\ mode' = "Normal"
    /\ input_buf' = <<>>
    /\ message' = NoMessage
    /\ step' = Idle
    /\ UiOnly
    /\ UNCHANGED <<selected_col, selected_row, search_buf, search_active,
                   should_quit, pending_confirm, pending_g, board_list,
                   board_selected>>

\* The board after handle_insert has pushed the new card: Card::new with
\* the buffer as title, in the selected column, at the column's next_order.
add_card(b, id, title, col_idx) ==
    LET col_name == b.columns[col_idx + 1].name
        card == [Card_new(id, title, col_name)
                    EXCEPT !.order = next_order(b, col_name)]
    IN  [b EXCEPT !.cards = Append(b.cards, card)]

\* handle_insert, Enter.  `columns[selected_col]` panics when the index is
\* out of range; `column_cards(..).len() - 1` overflows when the active
\* filter hides every card of the column, the new one included: a panic,
\* or usize::MAX.
InsertEnter ==
    /\ Running /\ mode = "Insert"
    /\ Key
    /\ UNCHANGED <<selected_col, search_buf, search_active, should_quit,
                   pending_confirm, pending_g, board_list, board_selected,
                   config>>
    /\ IF input_buf = <<>>
       THEN /\ mode' = "Normal"
            /\ step' = Idle
            /\ UNCHANGED <<board, input_buf, selected_row, message, disk,
                           faults, save_failed, next_id, panicked>>
       ELSE IF selected_col >= Len(board.columns)
       THEN /\ panicked' = TRUE
            /\ step' = Idle
            /\ UNCHANGED <<board, mode, input_buf, selected_row, message,
                           disk, faults, save_failed, next_id>>
       ELSE \E ok \in BOOLEAN, checked \in OverflowChecks :
              LET added == add_card(board, next_id, input_buf, selected_col)
                  count == Len(column_cards(added, search_active,
                                            search_buf, selected_col))
                  overflow == ok /\ count = 0
              IN  /\ overflow \/ checked
                  /\ next_id <= StoredCards + MaxCards
                  /\ added.cards[Len(added.cards)].order <= MaxOrder
                  /\ board' = added
                  /\ next_id' = next_id + 1
                  /\ SaveBoard(ok, added)
                  /\ message' = IF ok THEN Msg("Added: ", input_buf)
                                ELSE Msg("Save failed: ", <<"io">>)
                  /\ step' = Step("add", next_id,
                                  <<Call("save_board", ok)>>)
                  /\ panicked' = (overflow /\ checked)
                  /\ selected_row' = IF ~ok THEN selected_row
                                     ELSE IF count > 0 THEN count - 1
                                     ELSE IF checked THEN selected_row
                                     ELSE UsizeMax
                  /\ IF overflow /\ checked
                     THEN UNCHANGED <<input_buf, mode>>
                     ELSE input_buf' = <<>> /\ mode' = "Normal"

\* handle_insert, Backspace
InsertBackspace ==
    /\ Running /\ mode = "Insert"
    /\ input_buf' = pop(input_buf)
    /\ step' = Idle
    /\ UiOnly
    /\ UNCHANGED <<mode, selected_col, selected_row, search_buf,
                   search_active, message, should_quit, pending_confirm,
                   pending_g, board_list, board_selected>>

\* handle_insert, Char(c)
InsertChar ==
    /\ Running /\ mode = "Insert"
    /\ Len(input_buf) < MaxBuf
    /\ \E c \in Chars : input_buf' = Append(input_buf, c)
    /\ step' = Idle
    /\ UiOnly
    /\ UNCHANGED <<mode, selected_col, selected_row, search_buf,
                   search_active, message, should_quit, pending_confirm,
                   pending_g, board_list, board_selected>>

\* A key the mode's handler ignores (`_ => {}`).
Ignored(m) ==
    /\ Running /\ mode = m
    /\ step' = Idle
    /\ UiOnly
    /\ UNCHANGED app

\* handle_insert, any other key
InsertOther == Ignored("Insert")

\* ---------------------------------------------------------- Search mode
\* Mutant of SearchEsc: leaves the mode but keeps the filter.
SearchEsc_KeepsFilter ==
    /\ Running /\ mode = "Search"
    /\ mode' = "Normal"
    /\ message' = NoMessage
    /\ selected_row' = clamp_row(board, search_active, search_buf,
                                 selected_col, selected_row)
    /\ step' = Idle
    /\ UiOnly
    /\ UNCHANGED <<selected_col, input_buf, search_buf, search_active,
                   should_quit, pending_confirm, pending_g, board_list,
                   board_selected>>

\* handle_search, Esc
SearchEsc ==
    /\ Running /\ mode = "Search"
    /\ mode' = "Normal"
    /\ search_active' = FALSE
    /\ search_buf' = <<>>
    /\ message' = NoMessage
    /\ selected_row' = clamp_row(board, FALSE, <<>>, selected_col,
                                 selected_row)
    /\ step' = Idle
    /\ UiOnly
    /\ UNCHANGED <<selected_col, input_buf, should_quit, pending_confirm,
                   pending_g, board_list, board_selected>>

\* handle_search, Enter
SearchEnter ==
    /\ Running /\ mode = "Search"
    /\ mode' = "Normal"
    /\ message' = NoMessage
    /\ selected_row' = 0
    /\ step' = Idle
    /\ UiOnly
    /\ UNCHANGED <<selected_col, input_buf, search_buf, search_active,
                   should_quit, pending_confirm, pending_g, board_list,
                   board_selected>>

\* handle_search, Backspace
SearchBackspace ==
    /\ Running /\ mode = "Search"
    /\ search_buf' = pop(search_buf)
    /\ selected_row' = 0
    /\ step' = Idle
    /\ UiOnly
    /\ UNCHANGED <<mode, selected_col, input_buf, search_active, message,
                   should_quit, pending_confirm, pending_g, board_list,
                   board_selected>>

\* handle_search, Char(c)
SearchChar ==
    /\ Running /\ mode = "Search"
    /\ Len(search_buf) < MaxBuf
    /\ \E c \in Chars : search_buf' = Append(search_buf, c)
    /\ selected_row' = 0
    /\ step' = Idle
    /\ UiOnly
    /\ UNCHANGED <<mode, selected_col, input_buf, search_active, message,
                   should_quit, pending_confirm, pending_g, board_list,
                   board_selected>>

\* handle_search, any other key
SearchOther == Ignored("Search")

\* Mutant of HelpDismiss: 'q' quits as it does in Normal mode.
HelpDismiss_Quits ==
    /\ Running /\ mode = "Help"
    /\ mode' = "Normal"
    /\ should_quit' = TRUE
    /\ step' = Idle
    /\ UiOnly
    /\ UNCHANGED <<selected_col, selected_row, input_buf, search_buf,
                   search_active, message, pending_confirm,
                   pending_g, board_list, board_selected>>

\* ------------------------------------------------------------ Help mode
\* handle_help, Esc | 'q' | '?'
HelpDismiss ==
    /\ Running /\ mode = "Help"
    /\ mode' = "Normal"
    /\ step' = Idle
    /\ UiOnly
    /\ UNCHANGED <<selected_col, selected_row, input_buf, search_buf,
                   search_active, message, should_quit, pending_confirm,
                   pending_g, board_list, board_selected>>

\* handle_help, any other key
HelpOther == Ignored("Help")

\* --------------------------------------------------------- Confirm mode
\* handle_confirm, 'y' | 'Y': pending_confirm.take(), then for Delete
\* delete_current_card (whose message the handler then overwrites).
ConfirmYes ==
    /\ Running /\ mode = "Confirm"
    /\ Key
    /\ pending_confirm' = NoConfirm
    /\ mode' = "Normal"
    /\ message' = NoMessage
    /\ UNCHANGED <<selected_col, input_buf, search_buf, search_active,
                   should_quit, pending_g, board_list, board_selected,
                   config, next_id, panicked>>
    /\ IF pending_confirm = "Delete" /\ Current # NoCard
       THEN \E ok \in BOOLEAN :
              LET id == Current
                  deleted == delete(board, id)
              IN  /\ board' = deleted
                  /\ SaveBoard(ok, deleted)
                  /\ selected_row' = clamp_row(deleted, search_active,
                                               search_buf, selected_col,
                                               selected_row)
                  /\ step' = Step("delete", id, <<Call("save_board", ok)>>)
       ELSE /\ step' = Idle
            /\ UNCHANGED <<board, selected_row, disk, faults, save_failed>>

\* Mutant of ConfirmOther: the pending delete is carried out.
ConfirmOther_Deletes ==
    /\ Running /\ mode = "Confirm"
    /\ pending_confirm' = NoConfirm
    /\ mode' = "Normal"
    /\ message' = NoMessage
    /\ step' = Idle
    /\ Key
    /\ NoGateway
    /\ board' = delete(board, Current)
    /\ selected_row' = 0
    /\ UNCHANGED <<next_id, panicked, selected_col, input_buf, search_buf,
                   search_active, should_quit, pending_g, board_list,
                   board_selected>>

\* handle_confirm, any other key
ConfirmOther ==
    /\ Running /\ mode = "Confirm"
    /\ pending_confirm' = NoConfirm
    /\ mode' = "Normal"
    /\ message' = NoMessage
    /\ step' = Idle
    /\ UiOnly
    /\ UNCHANGED <<selected_col, selected_row, input_buf, search_buf,
                   search_active, should_quit, pending_g, board_list,
                   board_selected>>

\* ----------------------------------------------------- BoardPicker mode
\* handle_board_picker, Esc and 'q' (two arms with the same body)
PickerCancel ==
    /\ Running /\ mode = "BoardPicker"
    /\ mode' = "Normal"
    /\ message' = NoMessage
    /\ step' = Idle
    /\ UiOnly
    /\ UNCHANGED <<selected_col, selected_row, input_buf, search_buf,
                   search_active, should_quit, pending_confirm, pending_g,
                   board_list, board_selected>>

\* Mutant of PickerDown: the index moves past the end of the list.
PickerDown_Unclamped ==
    /\ Running /\ mode = "BoardPicker"
    /\ board_selected' = board_selected + 1
    /\ step' = Idle
    /\ UiOnly
    /\ UNCHANGED <<mode, selected_col, selected_row, input_buf, search_buf,
                   search_active, message, should_quit, pending_confirm,
                   pending_g, board_list>>

\* handle_board_picker, 'j' | Down
PickerDown ==
    /\ Running /\ mode = "BoardPicker"
    /\ board_selected' =
         IF board_list # <<>> /\ board_selected < Len(board_list) - 1
         THEN board_selected + 1 ELSE board_selected
    /\ step' = Idle
    /\ UiOnly
    /\ UNCHANGED <<mode, selected_col, selected_row, input_buf, search_buf,
                   search_active, message, should_quit, pending_confirm,
                   pending_g, board_list>>

\* handle_board_picker, 'k' | Up
PickerUp ==
    /\ Running /\ mode = "BoardPicker"
    /\ board_selected' = IF board_selected > 0 THEN board_selected - 1
                         ELSE board_selected
    /\ step' = Idle
    /\ UiOnly
    /\ UNCHANGED <<mode, selected_col, selected_row, input_buf, search_buf,
                   search_active, message, should_quit, pending_confirm,
                   pending_g, board_list>>

\* The gateway calls of a board switch, given the call that fails
\* ("none" if none does): load_config, save_config, load_board in turn.
SwitchCalls(failed) ==
    IF failed = "load_config" THEN <<Call("load_config", FALSE)>>
    ELSE IF failed = "save_config"
    THEN <<Call("load_config", TRUE), Call("save_config", FALSE)>>
    ELSE <<Call("load_config", TRUE), Call("save_config", TRUE),
           Call("load_board", failed = "none")>>

\* Mutant of SwitchConfig: the new active board is never written.
SwitchConfig_NotWritten(cfg, name, failed) == cfg

\* The configuration file after the switch's gateway calls: it is written
\* as soon as save_config succeeds, before the board is loaded.
SwitchConfig(cfg, name, failed) ==
    IF failed \in {"load_config", "save_config"} THEN cfg
    ELSE [cfg EXCEPT !.default_board = name]

\* handle_board_picker, Enter
PickerEnter ==
    /\ Running /\ mode = "BoardPicker"
    /\ Key
    /\ mode' = "Normal"
    /\ UNCHANGED <<input_buf, should_quit, pending_confirm, pending_g,
                   board_list, board_selected, disk, save_failed, next_id,
                   panicked>>
    /\ IF board_selected >= Len(board_list)
       THEN /\ step' = Idle
            /\ UNCHANGED <<board, selected_col, selected_row, search_buf,
                           search_active, message, config, faults>>
       ELSE IF board_list[board_selected + 1] = board.name
       THEN /\ message' = NoMessage
            /\ step' = Idle
            /\ UNCHANGED <<board, selected_col, selected_row, search_buf,
                           search_active, config, faults>>
       ELSE \E failed \in {"none", "load_config", "save_config",
                           "load_board"} :
              LET name == board_list[board_selected + 1]
              IN  /\ MayFail(failed = "none")
                  /\ faults' = IF failed = "none" THEN faults
                               ELSE faults + 1
                  /\ config' = SwitchConfig(config, name, failed)
                  /\ step' = Step("switch", NoCard, SwitchCalls(failed))
                  /\ IF failed = "none"
                     THEN /\ board' = Store_load_board(disk, name)
                          /\ selected_col' = 0
                          /\ selected_row' = 0
                          /\ search_active' = FALSE
                          /\ search_buf' = <<>>
                          /\ message' = Msg("Switched to board: ", <<name>>)
                     ELSE /\ message' =
                               IF failed = "load_config"
                               THEN Msg("Load config failed: ", <<"io">>)
                               ELSE IF failed = "save_config"
                               THEN Msg("Save config failed: ", <<"io">>)
                               ELSE Msg("Load board failed: ", <<"io">>)
                          /\ UNCHANGED <<board, selected_col, selected_row,
                                         search_buf, search_active>>

\* handle_board_picker, any other key
PickerOther == Ignored("BoardPicker")

\* ------------------------------------------------------------ force quit
\* Mutant of CtrlC: the key is also given to the mode's handler, which
\* leaves its mode.
CtrlC_Dispatched ==
    /\ Running
    /\ should_quit' = TRUE
    /\ mode' = "Normal"
    /\ pending_confirm' = NoConfirm
    /\ step' = Idle
    /\ UiOnly
    /\ UNCHANGED <<selected_col, selected_row, input_buf, search_buf,
                   search_active, message, pending_g, board_list,
                   board_selected>>

\* handle_key, Ctrl+C: before any mode dispatch.
CtrlC ==
    /\ Running
    /\ should_quit' = TRUE
    /\ step' = Idle
    /\ UiOnly
    /\ UNCHANGED <<mode, selected_col, selected_row, input_buf, search_buf,
                   search_active, message, pending_confirm, pending_g,
                   board_list, board_selected>>

\* ------------------------------------------------------------------ Next
Next ==
    \/ NormalQuit \/ NormalDown \/ NormalUp \/ NormalLeft \/ NormalRight
    \/ NormalG \/ NormalBigG \/ NormalAdd \/ NormalDelete
    \/ NormalMoveRight \/ NormalMoveLeft \/ NormalHoist \/ NormalDemote
    \/ NormalArchive \/ NormalSearch \/ NormalEsc \/ NormalHelp
    \/ NormalRefresh \/ NormalBoardPicker \/ NormalOther
    \/ InsertEsc \/ InsertEnter \/ InsertBackspace \/ InsertChar
    \/ InsertOther
    \/ SearchEsc \/ SearchEnter \/ SearchBackspace \/ SearchChar
    \/ SearchOther
    \/ HelpDismiss \/ HelpOther
    \/ ConfirmYes \/ ConfirmOther
    \/ PickerCancel \/ PickerDown \/ PickerUp \/ PickerEnter \/ PickerOther
    \/ CtrlC

Spec == Init /\ [][Next]_vars

\* ========================================================= command line
\* The commands of src/src/cli/commands.rs.  Each invocation is a process
\* of its own: it loads the configuration and the active board, acts, and
\* saves the whole board.  No interactive session runs beside them.

\* The characters of a card argument: digits, a sign, a letter.
TokenChars == {"0", "1", "2", "+", "K"}
Digits == {"0", "1", "2"}
DigitValue(c) == IF c = "0" THEN 0 ELSE IF c = "1" THEN 1 ELSE 2

\* The card arguments tried.
Tokens == UNION {[1..n -> TokenChars] : n \in 1..MaxToken}

\* The text of a card's identifier.  The model numbers the ULIDs; as text
\* a ULID starts with a digit and has letters further on, and no two are
\* the same.
Ulid(id) ==
    IF id = 1 THEN <<"1", "K">>
    ELSE IF id = 2 THEN <<"2", "K">>
    ELSE <<"0">> \o [i \in 1..(id - 2) |-> "K"]

\* The value of a string of decimal digits.
RECURSIVE DecimalValue(_)
DecimalValue(ds) ==
    IF ds = <<>> THEN 0
    ELSE 10 * DecimalValue(SubSeq(ds, 1, Len(ds) - 1))
           + DigitValue(ds[Len(ds)])

\* Err of str::parse::<usize>
ParseErr == -1

\* str::parse::<usize>: an optional '+', then one digit or more and
\* nothing else.  (A value above usize::MAX is an error too; no argument
\* of MaxToken characters gets there.)
parse_usize(t) ==
    LET ds == IF t # <<>> /\ t[1] = "+" THEN Tail(t) ELSE t
    IN  IF ds = <<>> \/ \E i \in 1..Len(ds) : ds[i] \notin Digits
        THEN ParseErr
        ELSE DecimalValue(ds)

\* Mutant of find_card_by_number: the number is taken as a 0-based index.
find_card_by_number_ZeroBased(b, number) ==
    LET active == sort_by_order(SelectSeq(b.cards, LAMBDA c : ~c.archived))
    IN  IF number < Len(active) THEN active[number + 1].id ELSE NoCard

\* Board::find_card_by_number: the id of the card found, NoCard for None.
\* All non-archived cards of the board, sorted by order (stable), indexed
\* by number.wrapping_sub(1).
find_card_by_number(b, number) ==
    LET active == sort_by_order(SelectSeq(b.cards, LAMBDA c : ~c.archived))
        idx == IF number = 0 THEN UsizeMax ELSE number - 1
    IN  IF idx < Len(active) THEN active[idx + 1].id ELSE NoCard

\* Board::find_card by the identifier's text: the id of the first card
\* whose identifier is the text, NoCard for None.
find_card(b, text) ==
    IF \E i \in 1..Len(b.cards) : Ulid(b.cards[i].id) = text
    THEN b.cards[CHOOSE i \in 1..Len(b.cards) :
                    /\ Ulid(b.cards[i].id) = text
                    /\ \A j \in 1..(i - 1) : Ulid(b.cards[j].id) # text].id
    ELSE NoCard

\* Board::resolve_card_id
resolve_card_id(b, id_or_num) ==
    IF parse_usize(id_or_num) # ParseErr
    THEN find_card_by_number(b, parse_usize(id_or_num))
    ELSE find_card(b, id_or_num)

\* Board::has_column
has_column(b, name) == \E i \in 1..Len(b.columns) : b.columns[i].name = name

\* What `kuk list` prints of the cards: for each column in turn its
\* non-archived cards sorted by order, numbered from 1 (position i of the
\* column's sequence is printed as "i.").
list(b) ==
    [k \in 1..Len(b.columns) |->
        LET mine(c) == c.column = b.columns[k].name /\ ~c.archived
            sorted == sort_by_order(SelectSeq(b.cards, mine))
        IN  [i \in 1..Len(sorted) |-> sorted[i].id]]

\* The column names given to --to / as the move target.
CliColumns == {"todo", "doing", "ideas", "nowhere"}

\* The board a command loads: the active board's document.
CliBoard == Store_load_board(disk, config.default_board)

\* More commands are run.
CliRunning == commands < MaxCmds

\* What a command leaves alone: the interactive session (none runs) and
\* the configuration.
CliFrame ==
    /\ commands' = commands + 1
    /\ UNCHANGED <<app, config, save_failed, panicked, keys, step, exists,
                   result, server>>

\* A command that ends with an error before it has changed anything.
CliErr(cmd, token, resolved, err) ==
    /\ cli' = Cli(cmd, token, resolved, err, <<>>)
    /\ UNCHANGED <<disk, faults, next_id>>

\* load_config or load_board fails: the `?` returns the error.
CliLoadFails(cmd, token) ==
    /\ faults < MaxFaults
    /\ faults' = faults + 1
    /\ cli' = Cli(cmd, token, NoCard, "Io", <<>>)
    /\ UNCHANGED <<disk, next_id>>

\* store.save_board(&board)? at the end of a command, with outcome ok.
CliSave(cmd, token, resolved, ok, b) ==
    /\ MayFail(ok)
    /\ disk' = IF ok THEN Store_save_board(disk, b) ELSE disk
    /\ faults' = IF ok THEN faults ELSE faults + 1
    /\ cli' = Cli(cmd, token, resolved, IF ok THEN "none" ELSE "Io", <<>>)

\* kuk list
CliList ==
    /\ CliRunning
    /\ CliFrame
    /\ \/ CliLoadFails("list", <<>>)
       \/ /\ cli' = Cli("list", <<>>, NoCard, "none", list(CliBoard))
          /\ UNCHANGED <<disk, faults, next_id>>

\* The card with the id on a board that has it.
CardOfId(b, id) == b.cards[find_card_pos(b, id)]

\* kuk add <title> --to <column> [--label <tag>]...: the labels given
\* become the card's label list as they are.
CliAddLabelled(labels) ==
    /\ CliRunning
    /\ CliFrame
    /\ \/ CliLoadFails("add", <<>>)
       \/ \E column \in CliColumns, ok \in BOOLEAN :
            LET b == CliBoard
                card == [Card_new(next_id, <<"a">>, column)
                            EXCEPT !.order = next_order(b, column),
                                   !.labels = labels]
                added == [b EXCEPT !.cards = Append(b.cards, card)]
            IN  IF ~has_column(b, column)
                THEN ok /\ CliErr("add", <<>>, NoCard, "ColumnNotFound")
                ELSE /\ next_id <= StoredCards + MaxCards
                     /\ card.order <= MaxOrder
                     /\ next_id' = next_id + 1
                     /\ CliSave("add", <<>>, next_id, ok, added)

\* kuk add <title> --to <column>, no label given.
CliAdd == CliAddLabelled(<<>>)

\* kuk move <id> <column>
CliMove ==
    /\ CliRunning
    /\ CliFrame
    /\ \E id_or_num \in Tokens :
         \/ CliLoadFails("move", id_or_num)
         \/ \E to \in CliColumns, ok \in BOOLEAN :
              LET b == CliBoard
                  card_id == resolve_card_id(b, id_or_num)
                  order == next_order(b, to)
              IN  IF ~has_column(b, to)
                  THEN ok /\ CliErr("move", id_or_num, NoCard,
                                    "ColumnNotFound")
                  ELSE IF card_id = NoCard
                  THEN ok /\ CliErr("move", id_or_num, NoCard,
                                    "CardNotFound")
                  ELSE /\ order <= MaxOrder
                       /\ UNCHANGED next_id
                       /\ CliSave("move", id_or_num, card_id, ok,
                                  move_card(b, card_id, to, order))

\* Mutant of CliChange: the hoist command leaves the siblings where they
\* are.
CliChange_HoistKeepsSiblings(cmd, b, card_id) ==
    CASE cmd = "hoist" -> hoist_KeepsSiblings(b, card_id)
      [] cmd = "demote" -> demote(b, card_id)
      [] cmd = "archive" -> archive(b, card_id)
      [] cmd = "delete" -> delete(b, card_id)

\* What each of hoist, demote, archive and delete does to the board once
\* the card is resolved (the bodies are those of the interactive engine).
CliChange(cmd, b, card_id) ==
    CASE cmd = "hoist" -> hoist(b, card_id)
      [] cmd = "demote" -> demote(b, card_id)
      [] cmd = "archive" -> archive(b, card_id)
      [] cmd = "delete" -> delete(b, card_id)

\* A command that resolves its card argument and changes that card:
\* hoist, demote, archive, delete.
CliCardCommand(cmd) ==
    /\ CliRunning
    /\ CliFrame
    /\ \E id_or_num \in Tokens :
         \/ CliLoadFails(cmd, id_or_num)
         \/ \E ok \in BOOLEAN :
              LET b == CliBoard
                  card_id == resolve_card_id(b, id_or_num)
                  changed == CliChange(cmd, b, card_id)
              IN  IF card_id = NoCard
                  THEN ok /\ CliErr(cmd, id_or_num, NoCard, "CardNotFound")
                  ELSE /\ \A i \in 1..Len(changed.cards) :
                              changed.cards[i].order <= MaxOrder
                       /\ UNCHANGED next_id
                       /\ CliSave(cmd, id_or_num, card_id, ok, changed)

\* kuk hoist <id>
CliHoist == CliCardCommand("hoist")

\* kuk demote <id>
CliDemote == CliCardCommand("demote")

\* kuk archive <id>
CliArchive == CliCardCommand("archive")

\* kuk delete <id>
CliDelete == CliCardCommand("delete")

\* The state the commands start from: as Init, with any of the stored
\* boards active (`kuk board switch` has been run or not).
CliInit ==
    /\ config \in {[RepoConfig_default EXCEPT !.default_board = n] :
                      n \in {"backlog", "default", "empty"}}
    /\ disk = [n \in {"backlog", "default", "empty"} |->
                 IF n = "default" THEN ToDoc(StoredDefault)
                 ELSE IF n = "backlog" THEN ToDoc(StoredBacklog)
                 ELSE ToDoc(StoredEmpty)]
    /\ board = Store_load_board(disk, config.default_board)
    /\ mode = "Normal"
    /\ selected_col = 0
    /\ selected_row = 0
    /\ input_buf = <<>>
    /\ search_buf = <<>>
    /\ search_active = FALSE
    /\ message = NoMessage
    /\ should_quit = FALSE
    /\ pending_confirm = NoConfirm
    /\ pending_g = FALSE
    /\ board_list = <<>>
    /\ board_selected = 0
    /\ next_id = StoredCards + 1
    /\ keys = 0
    /\ faults = 0
    /\ save_failed = FALSE
    /\ panicked = FALSE
    /\ step = Idle
    /\ cli = NoCommand
    /\ commands = 0
    /\ exists = Paths
    /\ result = NoResult
    /\ server = ServerIdle

CliNext ==
    \/ CliList \/ CliAdd \/ CliMove \/ CliHoist \/ CliDemote
    \/ CliArchive \/ CliDelete

CliSpec == CliInit /\ [][CliNext]_vars

\* ---------------------------------------------------------------- labels
\* The tags, the --label lists of `kuk add` and the actions of `kuk label`
\* given on the command line ("toggle" stands for any word other than add
\* and remove).
Tags == {"bug", "ui"}
LabelArgs == {<<>>, <<"bug">>, <<"bug", "bug">>, <<"ui", "bug">>}
LabelActions == {"add", "remove", "toggle"}

\* Vec::contains on a label list.
has_label(labels, tag) == \E i \in 1..Len(labels) : labels[i] = tag

\* commands::label, the match on the action for "add" and "remove": push
\* unless contained; retain the others.
label_change(b, card_id, action, tag) ==
    LET pos == find_card_pos(b, card_id)
        labels == b.cards[pos].labels
    IN  [b EXCEPT !.cards[pos].labels =
            IF action = "add"
            THEN IF has_label(labels, tag) THEN labels
                 ELSE Append(labels, tag)
            ELSE SelectSeq(labels, LAMBDA l : l # tag)]

\* kuk label <id> <action> <tag>, for given arguments.
CliLabelWith(id_or_num, action, tag) ==
    /\ CliRunning
    /\ CliFrame
    /\ \/ CliLoadFails("label", id_or_num)
       \/ \E ok \in BOOLEAN :
            LET b == CliBoard
                card_id == resolve_card_id(b, id_or_num)
            IN  IF card_id = NoCard
                THEN ok /\ CliErr("label", id_or_num, NoCard, "CardNotFound")
                ELSE IF action \notin {"add", "remove"}
                THEN ok /\ CliErr("label", id_or_num, card_id, "Other")
                ELSE IF action = "remove"
                        /\ ~has_label(CardOfId(b, card_id).labels, tag)
                THEN ok /\ CliErr("label", id_or_num, card_id,
                                  "LabelNotFound")
                ELSE /\ UNCHANGED next_id
                     /\ CliSave("label", id_or_num, card_id, ok,
                                label_change(b, card_id, action, tag))

\* kuk label
CliLabel ==
    \E id_or_num \in Tokens, action \in LabelActions, tag \in Tags :
        CliLabelWith(id_or_num, action, tag)

\* kuk add with any of the label lists, kuk label.
LabelNext ==
    \/ \E labels \in LabelArgs : CliAddLabelled(labels)
    \/ CliLabel

\* Card-creating and label commands on the stored boards.
LabelSpec == CliInit /\ [][LabelNext]_vars

\* ------------------------------------------------- a concurrent writer
\* Another process runs `kuk add` while the interactive session is open:
\* it loads the configured board's document, appends a card and saves.
\* Neither program takes a lock, so the command runs between any two key
\* events.
ExternalAdd ==
    /\ commands < MaxExternal
    /\ CliAdd

SharedNext == Next \/ ExternalAdd

\* The interactive session with a concurrent writer.
SharedSpec == Init /\ [][SharedNext]_vars

\* ------------------------------------------------ the gateway by itself
\* Store::is_initialized: .kuk/ exists.
is_initialized == ".kuk" \in exists

\* The board names the gateway is called with.
BoardNames == {"backlog", "default", "empty"}

\* A card with every field set: description, assignee, two labels, due
\* date, one metadata entry, archived.
FullCard ==
    [id |-> 1, title |-> <<"a">>, description |-> Some("text"),
     column |-> "ideas", order |-> 2, assignee |-> Some("ann"),
     labels |-> <<"ui", "bug">>, due |-> Some("2026-01-01"),
     metadata |-> [points |-> 3], archived |-> TRUE]

\* The boards save_board is called with: the default board without and
\* with cards, and a board named backlog without cards, with a full card
\* next to a bare one, and with the bare one alone (an empty description
\* is not a missing one; a column without limit next to one with).
StoreBoards ==
    LET backlog == [name |-> "backlog",
                    columns |-> <<Column("ideas", 0),
                                  Column("later", NoLimit)>>,
                    cards |-> <<>>]
        bare == [Card_new(2, <<"B">>, "later")
                    EXCEPT !.description = Some("")]
    IN  {default_board, StoredDefault, backlog,
         [backlog EXCEPT !.cards = <<FullCard, bare>>],
         [backlog EXCEPT !.cards = <<bare>>]}

\* The configurations save_config is called with.
StoreConfigs ==
    {RepoConfig_default,
     [RepoConfig_default EXCEPT !.default_board = "backlog"]}

\* The column lists create_board is called with.
StoreColumnLists == {<<>>, <<Column("ideas", 1), Column("later", NoLimit)>>}

\* What a direct gateway call leaves alone: no session and no command
\* runs.
StoreFrame ==
    UNCHANGED <<app, next_id, save_failed, panicked, keys, step, cli,
                commands, server>>

\* A call that returns an error without having written anything.
StoreErr(op, arg, err) ==
    /\ result' = Result(op, arg, err, Unit)
    /\ UNCHANGED <<disk, config, exists, faults>>

\* A call that fails with an I/O error, nothing written.
StoreIoFails(op, arg) ==
    /\ faults < MaxFaults
    /\ faults' = faults + 1
    /\ result' = Result(op, arg, "Io", Unit)
    /\ UNCHANGED <<disk, config, exists>>

\* Store::init.  Four writes in turn, each followed by `?`: the
\* directories, the configuration, the default board, the global index;
\* `failed` is the one that fails, "none" if none does.  What was written
\* before the failure stays.
StoreInit ==
    /\ StoreFrame
    /\ IF is_initialized
       THEN StoreErr("init", Unit, "AlreadyInitialized")
       ELSE \E failed \in {"none", "create_dir_all", "config", "board",
                           "index"} :
              /\ MayFail(failed = "none")
              /\ faults' = IF failed = "none" THEN faults ELSE faults + 1
              /\ exists' =
                   exists
                     \cup (IF failed = "create_dir_all" THEN {} ELSE {".kuk"})
                     \cup (IF failed \in {"board", "index", "none"}
                           THEN {"config.json"} ELSE {})
                     \cup (IF failed = "none" THEN {"index.json"} ELSE {})
              /\ config' = IF failed \in {"board", "index", "none"}
                           THEN RepoConfig_default ELSE config
              /\ disk' = IF failed \in {"index", "none"}
                         THEN Store_save_board(disk, default_board)
                         ELSE disk
              /\ result' = Result("init", Unit,
                                  IF failed = "none" THEN "none" ELSE "Io",
                                  Unit)

\* Store::load_config
StoreLoadConfig ==
    /\ StoreFrame
    /\ IF ~is_initialized
       THEN StoreErr("load_config", Unit, "NotInitialized")
       ELSE IF "config.json" \notin exists
       THEN StoreErr("load_config", Unit, "Io")
       ELSE \/ StoreIoFails("load_config", Unit)
            \/ /\ result' = Result("load_config", Unit, "none",
                                    [config |-> config])
               /\ UNCHANGED <<disk, config, exists, faults>>

\* Store::save_config
StoreSaveConfig ==
    /\ StoreFrame
    /\ \E cfg \in StoreConfigs :
         IF ~is_initialized
         THEN StoreErr("save_config", [config |-> cfg], "NotInitialized")
         ELSE \/ StoreIoFails("save_config", [config |-> cfg])
              \/ /\ config' = cfg
                 /\ exists' = exists \cup {"config.json"}
                 /\ result' = Result("save_config", [config |-> cfg],
                                     "none", Unit)
                 /\ UNCHANGED <<disk, faults>>

\* Store::load_board
StoreLoadBoard ==
    /\ StoreFrame
    /\ \E name \in BoardNames :
         IF ~is_initialized
         THEN StoreErr("load_board", [name |-> name], "NotInitialized")
         ELSE IF name \notin BoardFiles(disk)
         THEN StoreErr("load_board", [name |-> name], "BoardNotFound")
         ELSE \/ StoreIoFails("load_board", [name |-> name])
              \/ /\ result' =
                      Result("load_board", [name |-> name], "none",
                             [board |-> Store_load_board(disk, name)])
                 /\ UNCHANGED <<disk, config, exists, faults>>

\* Store::save_board
StoreSaveBoard ==
    /\ StoreFrame
    /\ \E b \in StoreBoards :
         IF ~is_initialized
         THEN StoreErr("save_board", [board |-> b], "NotInitialized")
         ELSE \/ StoreIoFails("save_board", [board |-> b])
              \/ /\ disk' = Store_save_board(disk, b)
                 /\ result' = Result("save_board", [board |-> b], "none",
                                     Unit)
                 /\ UNCHANGED <<config, exists, faults>>

\* Store::list_boards
StoreListBoards ==
    /\ StoreFrame
    /\ IF ~is_initialized
       THEN StoreErr("list_boards", Unit, "NotInitialized")
       ELSE \/ StoreIoFails("list_boards", Unit)
            \/ /\ result' = Result("list_boards", Unit, "none",
                                    [boards |-> Store_list_boards(disk)])
               /\ UNCHANGED <<disk, config, exists, faults>>

\* Store::create_board
StoreCreateBoard ==
    /\ StoreFrame
    /\ \E name \in BoardNames, columns \in StoreColumnLists :
         LET arg == [name |-> name, columns |-> columns]
             created == [name |-> name, columns |-> columns, cards |-> <<>>]
         IN  IF ~is_initialized
             THEN StoreErr("create_board", arg, "NotInitialized")
             ELSE IF name \in BoardFiles(disk)
             THEN StoreErr("create_board", arg, "Other")
             ELSE \/ StoreIoFails("create_board", arg)
                  \/ /\ disk' = Store_save_board(disk, created)
                     /\ result' = Result("create_board", arg, "none", Unit)
                     /\ UNCHANGED <<config, exists, faults>>

\* Store::new on a directory without .kuk/: nothing exists; the rest of
\* the state is idle.
StoreStart ==
    /\ exists = {}
    /\ disk = <<>>
    /\ config = RepoConfig_default
    /\ result = NoResult
    /\ server = ServerIdle
    /\ faults = 0
    /\ board = default_board
    /\ mode = "Normal"
    /\ selected_col = 0
    /\ selected_row = 0
    /\ input_buf = <<>>
    /\ search_buf = <<>>
    /\ search_active = FALSE
    /\ message = NoMessage
    /\ should_quit = FALSE
    /\ pending_confirm = NoConfirm
    /\ pending_g = FALSE
    /\ board_list = <<>>
    /\ board_selected = 0
    /\ next_id = StoredCards + 1
    /\ keys = 0
    /\ save_failed = FALSE
    /\ panicked = FALSE
    /\ step = Idle
    /\ cli = NoCommand
    /\ commands = 0

StoreNext ==
    \/ StoreInit \/ StoreLoadConfig \/ StoreSaveConfig \/ StoreLoadBoard
    \/ StoreSaveBoard \/ StoreListBoards \/ StoreCreateBoard

\* Any sequence of gateway calls on a fresh directory.
StoreSpec == StoreStart /\ [][StoreNext]_vars

\* ------------------------------------- commands on a fresh directory
\* kuk init: Store::init, the outcome is the gateway's.
CmdInit == StoreInit

\* kuk board create <name>: Store::create_board with the three default
\* columns.
CmdBoardCreate ==
    /\ StoreFrame
    /\ \E name \in BoardNames :
         LET arg == [name |-> name]
             created == [default_board EXCEPT !.name = name]
         IN  IF ~is_initialized
             THEN StoreErr("board create", arg, "NotInitialized")
             ELSE IF name \in BoardFiles(disk)
             THEN StoreErr("board create", arg, "Other")
             ELSE \/ StoreIoFails("board create", arg)
                  \/ /\ disk' = Store_save_board(disk, created)
                     /\ result' = Result("board create", arg, "none", Unit)
                     /\ UNCHANGED <<config, exists, faults>>

\* kuk board switch <name>: load_board(name)? to see that the board
\* exists, then load_config()?, then save_config with the new name.
CmdBoardSwitch ==
    /\ StoreFrame
    /\ \E name \in BoardNames :
         LET arg == [name |-> name]
         IN  IF ~is_initialized
             THEN StoreErr("board switch", arg, "NotInitialized")
             ELSE IF name \notin BoardFiles(disk)
             THEN StoreErr("board switch", arg, "BoardNotFound")
             ELSE IF "config.json" \notin exists
             THEN StoreErr("board switch", arg, "Io")
             ELSE \/ StoreIoFails("board switch", arg)
                  \/ /\ config' = [config EXCEPT !.default_board = name]
                     /\ result' = Result("board switch", arg, "none", Unit)
                     /\ UNCHANGED <<disk, exists, faults>>

\* What load_config()? and load_board(&config.default_board)? at the
\* head of a card command return when the repository is not in order
\* ("none" when both can succeed).
CliLoadError ==
    IF ~is_initialized THEN "NotInitialized"
    ELSE IF "config.json" \notin exists THEN "Io"
    ELSE IF config.default_board \notin BoardFiles(disk) THEN "BoardNotFound"
    ELSE "none"

\* kuk add, on a repository in any condition.
CmdAdd ==
    IF CliLoadError = "none" THEN CliAdd
    ELSE /\ CliRunning
         /\ CliFrame
         /\ CliErr("add", <<>>, NoCard, CliLoadError)

\* kuk list, on a repository in any condition.
CmdList ==
    IF CliLoadError = "none" THEN CliList
    ELSE /\ CliRunning
         /\ CliFrame
         /\ CliErr("list", <<>>, NoCard, CliLoadError)

CmdNext ==
    \/ CmdInit \/ CmdBoardCreate \/ CmdBoardSwitch \/ CmdAdd \/ CmdList

\* Any sequence of init, board and card commands on a fresh directory.
CmdSpec == StoreStart /\ [][CmdNext]_vars

\* ========================================================= the server
\* `kuk serve`: the HTTP card endpoints of server/api.rs (the MCP tools of
\* server/mcp.rs run the same sequences on the same shared store).  Every
\* handler starts with `let store = store.lock().unwrap();` and the guard
\* lives to the end of the function.  A handler is modelled in the steps
\* at which another task could run: it takes the mutex, loads, then
\* changes, saves and answers (the guard is dropped on return).

\* The {id} path segments tried: the identifier of a card of the default
\* board, of the backlog board, of the first card added, and a number.
ServerTokens == {Ulid(1), Ulid(4), Ulid(StoredCards + 1), <<"1">>}

\* The requests tried.  AddCardReq and MoveCardReq carry an optional
\* board name; the archive, label, assign and delete requests have none.
ServerRequests ==
    {Request("add", <<>>, c, n, "") :
        c \in {"todo", "nowhere"}, n \in {None, Some("backlog")}}
    \cup {Request("move", t, "doing", None, "") : t \in ServerTokens}
    \cup {Request(op, t, "", None, "") :
            op \in {"archive", "assign", "delete"}, t \in ServerTokens}
    \cup {Request("label", t, "", None, a) :
            t \in ServerTokens, a \in LabelActions}

\* The board a handler loads.  add_card and move_card take the request's
\* board, `#[serde(default = "default_board_name")]`, the literal
\* "default" when the body has none; archive_card, label_card,
\* assign_card and delete_card load the configuration and take its
\* default_board.
ServerBoardName(cfg, req) ==
    IF req.op \in {"add", "move"}
    THEN IF req.board = None THEN "default" ELSE req.board[1]
    ELSE cfg.default_board

\* Mutant of MutexFree: lock() never waits.
MutexFree_Always(lock) == TRUE

\* The mutex is free: store.lock() returns only then.
MutexFree(lock) == lock = {}

\* What a handler does to the board it has loaded, before the save: the
\* error it answers with, or the changed board.  new_id is the ULID
\* Card::new draws.
ServerHandle(b, req, new_id) ==
    LET card_id == resolve_card_id(b, req.id)
        fails(e) == [err |-> e, board |-> b]
        done(c) == [err |-> "none", board |-> c]
    IN  IF req.op = "add"
        THEN IF ~has_column(b, req.column) THEN fails("ColumnNotFound")
             ELSE done([b EXCEPT !.cards =
                          Append(@, [Card_new(new_id, <<"a">>, req.column)
                                       EXCEPT !.order =
                                         next_order(b, req.column)])])
        ELSE IF req.op = "move" /\ ~has_column(b, req.column)
        THEN fails("ColumnNotFound")
        ELSE IF card_id = NoCard THEN fails("CardNotFound")
        ELSE IF req.op = "move"
        THEN done(move_card(b, card_id, req.column,
                            next_order(b, req.column)))
        ELSE IF req.op = "archive" THEN done(archive(b, card_id))
        ELSE IF req.op = "assign"
        THEN done([b EXCEPT !.cards[find_card_pos(b, card_id)].assignee =
                      Some("u")])
        ELSE IF req.op = "delete" THEN done(delete(b, card_id))
        ELSE IF req.arg \in {"add", "remove"}
        THEN done(label_change(b, card_id, req.arg, "bug"))
        ELSE fails("BadAction")

\* What every server step leaves alone: no interactive session and no
\* command runs, the configuration is only read.
ServerFrame ==
    UNCHANGED <<app, config, save_failed, panicked, keys, step, cli,
                commands, exists, result>>

\* The handler answers: the guard is dropped, the answer is logged.
ServerAnswer(p, status, new_id) ==
    server' = [server EXCEPT
                 !.lock = @ \ {p},
                 !.pc[p] = "idle",
                 !.req[p] = NoRequest,
                 !.local[p] = None,
                 !.log = Append(@, [req |-> server.req[p],
                                    status |-> status,
                                    new_id |-> new_id,
                                    contended |->
                                      \E q \in Handlers \ {p} :
                                          server.pc[q] # "idle"])]

\* A request arrives and its handler task starts.
ServerReceive ==
    \E p \in Handlers :
        /\ server.pc[p] = "idle"
        /\ Len(server.log)
             + Cardinality({q \in Handlers : server.pc[q] # "idle"})
             < MaxRequests
        /\ \E req \in ServerRequests :
              server' = [server EXCEPT !.pc[p] = "waiting", !.req[p] = req]
        /\ ServerFrame
        /\ UNCHANGED <<disk, faults, next_id>>

\* store.lock().unwrap()
ServerLock ==
    \E p \in Handlers :
        /\ server.pc[p] = "waiting"
        /\ MutexFree(server.lock)
        /\ server' = [server EXCEPT !.pc[p] = "locked", !.lock = @ \cup {p}]
        /\ ServerFrame
        /\ UNCHANGED <<disk, faults, next_id>>

\* store.load_config() where the handler has it, then store.load_board():
\* an error is answered at once.
ServerLoad ==
    \E p \in Handlers :
        /\ server.pc[p] = "locked"
        /\ ServerFrame
        /\ UNCHANGED <<disk, next_id>>
        /\ LET req == server.req[p]
               name == ServerBoardName(config, req)
           IN  \/ /\ faults < MaxFaults
                  /\ faults' = faults + 1
                  /\ ServerAnswer(p, "Io", NoCard)
               \/ /\ UNCHANGED faults
                  /\ IF name \notin BoardFiles(disk)
                     THEN ServerAnswer(p, "BoardNotFound", NoCard)
                     ELSE server' =
                            [server EXCEPT
                               !.pc[p] = "loaded",
                               !.local[p] = Some(Store_load_board(disk, name))]

\* The rest of the handler: the checks, the change, store.save_board()
\* and the answer.
ServerSave ==
    \E p \in Handlers :
        /\ server.pc[p] = "loaded"
        /\ ServerFrame
        /\ LET req == server.req[p]
               r == ServerHandle(server.local[p][1], req, next_id)
           IN  IF r.err # "none"
               THEN /\ ServerAnswer(p, r.err, NoCard)
                    /\ UNCHANGED <<disk, faults, next_id>>
               ELSE \E ok \in BOOLEAN :
                      /\ MayFail(ok)
                      /\ disk' = IF ok THEN Store_save_board(disk, r.board)
                                 ELSE disk
                      /\ faults' = IF ok THEN faults ELSE faults + 1
                      /\ next_id' = IF req.op = "add" THEN next_id + 1
                                    ELSE next_id
                      /\ ServerAnswer(p, IF ok THEN "none" ELSE "Io",
                                      IF req.op = "add" THEN next_id
                                      ELSE NoCard)

ServerNext == ServerReceive \/ ServerLock \/ ServerLoad \/ ServerSave

\* The server on an initialized repository with the stored boards, any
\* of them the active one.
ServerSpec == CliInit /\ [][ServerNext]_vars

\* ================================================================ claims
\* The operations that change the cards and save the board.
MutatingOps ==
    {"add", "move_right", "move_left", "hoist", "demote", "archive",
     "delete"}

\* The card with the id on a board that has it.
CardOf(b, id) == b.cards[find_card_pos(b, id)]

\* The board has a card with the id.
HasCard(b, id) == find_card_pos(b, id) # 0

\* The ids of a sequence of cards, in order.
Ids(cards) == [i \in 1..Len(cards) |-> cards[i].id]

\* The non-archived cards of the column named col other than the card id.
Siblings(b, id, col) ==
    {c \in {b.cards[i] : i \in 1..Len(b.cards)} :
        c.column = col /\ ~c.archived /\ c.id # id}

\* The persisted document of the in-memory board's name, loaded back,
\* is the in-memory board.
DiskAgrees == Store_load_board(disk, board.name) = board

\* C1: after a mutating transition (add, move, hoist, demote, archive,
\* delete) whose save succeeded the persisted document of the active board
\* equals the in-memory board; and while no save has failed, disk and
\* memory agree in every reachable state.
C1_DiskEqualsMemory ==
    /\ (step.op \in MutatingOps /\ step.calls = <<Call("save_board", TRUE)>>
          => DiskAgrees)
    /\ (~save_failed => DiskAgrees)

\* C1 witness: a mutating transition has just saved, no save has failed,
\* and the default board's document is no longer the stored one.
C1_Witness ==
    /\ step.op \in MutatingOps
    /\ step.calls = <<Call("save_board", TRUE)>>
    /\ ~save_failed
    /\ board.name = "default"
    /\ disk["default"] # ToDoc(StoredDefault)
    /\ DiskAgrees

\* C2 (as claimed): when the save of a mutating transition fails, the
\* status message after the key reports the failure and the mode is Normal.
C2_SaveFailureReported ==
    (step.op \in MutatingOps /\ step.calls = <<Call("save_board", FALSE)>>)
      => (message.text = "Save failed: " /\ mode = "Normal")

\* What each mutating operation leaves on the in-memory board b2, given
\* the board b1 and selected column before it and the card it acted on.
MutationApplied(op, id, b1, b2, col) ==
    CASE op = "add" ->
           /\ ~HasCard(b1, id) /\ HasCard(b2, id)
           /\ Len(b2.cards) = Len(b1.cards) + 1
      [] op = "delete" -> HasCard(b1, id) /\ ~HasCard(b2, id)
      [] op = "archive" ->
           ~CardOf(b1, id).archived /\ CardOf(b2, id).archived
      [] op = "hoist" -> CardOf(b2, id).order = 0
      [] op = "demote" -> CardOf(b2, id).order > CardOf(b1, id).order
      [] op = "move_right" ->
           CardOf(b2, id).column = b1.columns[col + 2].name
      [] op = "move_left" ->
           CardOf(b2, id).column = b1.columns[col].name

SomeCallFailed(calls) == \E i \in 1..Len(calls) : ~calls[i].ok

\* C4 (as claimed): a board switch that fails at any step (load_config,
\* save_config, load_board) has switched nothing: board, selection, search
\* filter and the persisted active-board name are as before, a failure
\* message is set and the mode is Normal.
C4_FailedSwitchChangesNothing ==
    [][ (step'.op = "switch" /\ SomeCallFailed(step'.calls))
          => /\ board' = board
             /\ selected_col' = selected_col
             /\ selected_row' = selected_row
             /\ search_active' = search_active
             /\ search_buf' = search_buf
             /\ config'.default_board = config.default_board
             /\ message'.text \in {"Load config failed: ",
                                   "Save config failed: ",
                                   "Load board failed: "}
             /\ mode' = "Normal" ]_vars

\* C5: a successful Enter in the board picker on a board other than the
\* active one persists that name as the active board, replaces the
\* in-memory board by the stored board of that name, selects (0,0),
\* deactivates and empties the search filter, sets a message naming the
\* board and returns to Normal.
C5_SuccessfulSwitch ==
    [][ (step'.op = "switch" /\ ~SomeCallFailed(step'.calls))
          => LET name == board_list[board_selected + 1]
             IN  /\ name # board.name
                 /\ config'.default_board = name
                 /\ board'.name = name
                 /\ board' = FromDoc(disk'[name])
                 /\ disk' = disk
                 /\ selected_col' = 0
                 /\ selected_row' = 0
                 /\ ~search_active'
                 /\ search_buf' = <<>>
                 /\ message' = Msg("Switched to board: ", <<name>>)
                 /\ mode' = "Normal" ]_vars

\* C5 witness: the session has switched to the backlog board.
C5_Witness ==
    /\ step.op = "switch"
    /\ ~SomeCallFailed(step.calls)
    /\ board.name = "backlog"
    /\ config.default_board = "backlog"
    /\ message = Msg("Switched to board: ", <<"backlog">>)

\* C6 (as claimed): in every reachable state the selected row is 0 when
\* the selected column's visible list is empty and otherwise less than the
\* number of visible cards.
C6_RowInRange ==
    IF Len(Visible) = 0 THEN selected_row = 0
    ELSE selected_row < Len(Visible)

\* C7 (as claimed): no handler step fails.
C7_NoHandlerFails == ~panicked

\* C8: hoisting the selected card sets its order to 0 and raises by
\* exactly one the order of every other non-archived card of its column,
\* cards hidden by the search filter included, so its order is strictly
\* below every sibling's; afterwards the selected row is 0 and the card is
\* the first visible card of the selected column.
C8_HoistRenumbers ==
    [][ step'.op = "hoist"
          => LET id == step'.card
                 col == CardOf(board, id).column
             IN  /\ id = Current
                 /\ CardOf(board', id).column = col
                 /\ CardOf(board', id).order = 0
                 /\ \A c \in Siblings(board, id, col) :
                        CardOf(board', c.id).order = c.order + 1
                 /\ \A c \in Siblings(board', id, col) :
                        CardOf(board', id).order < c.order
                 /\ selected_row' = 0
                 /\ Len(Visible') > 0
                 /\ Visible'[1].id = id ]_vars

\* C8 witness: a card has been hoisted over a sibling that the active
\* search filter hides.
C8_Witness ==
    /\ step.op = "hoist"
    /\ search_active /\ search_buf # <<>>
    /\ selected_row = 0
    /\ Visible[1].id = step.card
    /\ \E c \in Siblings(board, step.card, CardOf(board, step.card).column) :
          /\ c.order >= 1
          /\ \A i \in 1..Len(Visible) : Visible[i].id # c.id

\* C9: demoting the selected card sets its order to its column's
\* next_order computed at that moment, which no non-archived sibling's
\* order exceeds; afterwards the card is the last visible card of the
\* selected column and the selected row is the last visible index.
C9_DemoteToBottom ==
    [][ step'.op = "demote"
          => LET id == step'.card
                 col == CardOf(board, id).column
             IN  /\ id = Current
                 /\ CardOf(board', id).column = col
                 /\ CardOf(board', id).order = next_order(board, col)
                 /\ \A c \in Siblings(board', id, col) :
                        c.order <= CardOf(board', id).order
                 /\ Len(Visible') > 0
                 /\ Visible'[Len(Visible')].id = id
                 /\ selected_row' = Len(Visible') - 1 ]_vars

\* C9 witness: a card has been demoted below a sibling and the second
\* row is selected.
C9_Witness ==
    /\ step.op = "demote"
    /\ Siblings(board, step.card, CardOf(board, step.card).column) # {}
    /\ Len(Visible) >= 2
    /\ selected_row = Len(Visible) - 1
    /\ Visible[selected_row + 1].id = step.card

\* The row App::clamp_row leaves for a list of n visible cards.
Clamped(row, n) == IF n = 0 THEN 0 ELSE IF row >= n THEN n - 1 ELSE row

\* The destination column index of a move.
MoveDest(op, col) == IF op = "move_right" THEN col + 1 ELSE col - 1

\* C10 (as claimed): a move to the adjacent column sets the card's column
\* to the neighbour and its order to the neighbour's next_order computed
\* before the move; the card is then absent from the source column's
\* visible list and last in the destination's, and the row is re-clamped
\* to the source column.
C10_MoveAsClaimed ==
    [][ step'.op \in {"move_right", "move_left"}
          => LET id == step'.card
                 dest == MoveDest(step'.op, selected_col)
                 to == board.columns[dest + 1].name
                 src == column_cards(board', search_active', search_buf',
                                     selected_col)
                 dst == column_cards(board', search_active', search_buf',
                                     dest)
             IN  /\ id = Current
                 /\ CardOf(board', id).column = to
                 /\ CardOf(board', id).order = next_order(board, to)
                 /\ \A i \in 1..Len(src) : src[i].id # id
                 /\ Len(dst) > 0 /\ dst[Len(dst)].id = id
                 /\ selected_col' = selected_col
                 /\ selected_row' = Clamped(selected_row, Len(src)) ]_vars

\* C10 (amended): as claimed, except that the card leaves the source
\* column's visible list only when the neighbour's name differs from the
\* source column's name (two columns of one name list the same cards).
C10_Move ==
    [][ step'.op \in {"move_right", "move_left"}
          => LET id == step'.card
                 dest == MoveDest(step'.op, selected_col)
                 to == board.columns[dest + 1].name
                 from == board.columns[selected_col + 1].name
                 src == column_cards(board', search_active', search_buf',
                                     selected_col)
                 dst == column_cards(board', search_active', search_buf',
                                     dest)
             IN  /\ id = Current
                 /\ CardOf(board', id).column = to
                 /\ CardOf(board', id).order = next_order(board, to)
                 /\ to # from => \A i \in 1..Len(src) : src[i].id # id
                 /\ Len(dst) > 0 /\ dst[Len(dst)].id = id
                 /\ selected_col' = selected_col
                 /\ selected_row' = Clamped(selected_row, Len(src)) ]_vars

\* C10 witness: a card has been moved right behind the cards of a
\* neighbour with another name, leaving its own column's list empty.
C10_Witness ==
    /\ step.op = "move_right"
    /\ selected_col + 1 < Len(board.columns)
    /\ board.columns[selected_col + 2].name
         # board.columns[selected_col + 1].name
    /\ Len(Visible) = 0 /\ selected_row = 0
    /\ LET dst == column_cards(board, search_active, search_buf,
                               selected_col + 1)
       IN  Len(dst) >= 2 /\ dst[Len(dst)].id = step.card

\* C11: move-right in the last column, move-left in the first column, and
\* a card action (move, hoist, demote, archive, delete key) pressed while
\* no card is selected change no card, no selection and no mode and make
\* no persistence call (the stored documents and the failure count stay).
C11_NoopChangesNothing ==
    [][ ( \/ NormalMoveRight /\ ( \/ selected_col + 1 >= Len(board.columns)
                                  \/ Current = NoCard )
          \/ NormalMoveLeft /\ (selected_col = 0 \/ Current = NoCard)
          \/ ( /\ Current = NoCard
               /\ \/ NormalHoist \/ NormalDemote \/ NormalArchive
                  \/ NormalDelete ) )
        => /\ board' = board
           /\ selected_col' = selected_col
           /\ selected_row' = selected_row
           /\ mode' = mode
           /\ pending_confirm' = pending_confirm
           /\ step'.calls = <<>>
           /\ UNCHANGED <<disk, config, faults, save_failed>> ]_vars

\* C11 witness: move-right has just returned early on a selected card of
\* the last column (a column other than the first).
C11_Witness ==
    /\ step = Noop
    /\ Current # NoCard
    /\ selected_col > 0
    /\ selected_col + 1 = Len(board.columns)

\* The board without its archived cards.
LiveOnly(b) == [b EXCEPT !.cards = SelectSeq(b.cards, LAMBDA c : ~c.archived)]

\* The column names a board mentions, in its columns or on its cards.
ColumnNames(b) ==
    {b.columns[i].name : i \in 1..Len(b.columns)}
      \cup {b.cards[i].column : i \in 1..Len(b.cards)}

\* On board b the archived cards count for nothing: next_order of every
\* column is what it is without them, no number resolves to one, and no
\* column's visible list (filtered or not) or listing holds one, the
\* unfiltered length being the number of non-archived cards of that name.
ArchivedExcluded(b) ==
    /\ \A col \in ColumnNames(b) :
          next_order(b, col) = next_order(LiveOnly(b), col)
    /\ \A n \in 0..(Len(b.cards) + 1) :
          LET id == find_card_by_number(b, n)
          IN  id # NoCard => HasCard(b, id) /\ ~CardOf(b, id).archived
    /\ \A k \in 0..(Len(b.columns) - 1) :
          /\ \A active \in BOOLEAN :
                LET cards == column_cards(b, active, search_buf, k)
                IN  \A i \in 1..Len(cards) : ~cards[i].archived
          /\ Len(column_cards(b, FALSE, <<>>, k))
               = Cardinality({i \in 1..Len(b.cards) :
                                /\ b.cards[i].column = b.columns[k + 1].name
                                /\ ~b.cards[i].archived})
          /\ \A i \in 1..Len(list(b)[k + 1]) :
                ~CardOf(b, list(b)[k + 1][i]).archived

\* C12: after any sequence of operations archived cards contribute
\* nothing to next_order of any column, are never returned by positional
\* resolution and are in no column's visible list or count; on the
\* in-memory board and on every stored board.
C12_ArchivedExcluded ==
    /\ ArchivedExcluded(board)
    /\ \A n \in DOMAIN disk : ArchivedExcluded(FromDoc(disk[n]))

\* C12 witness: a card has been archived whose order is not below its
\* column's next_order: it no longer counts there.
C12_Witness ==
    /\ step.op = "archive"
    /\ HasCard(board, step.card)
    /\ LET c == CardOf(board, step.card)
       IN  /\ c.archived
           /\ c.order >= 1
           /\ next_order(board, c.column) <= c.order

\* C13: the membership of the board's card collection changes only by
\* add (exactly one new card, at the end) and by confirmed delete
\* (exactly the one card removed); archive, move, hoist, demote, search
\* and navigation keep the collection's ids, and an archived card stays
\* in the collection, archived.  (Reload and board switch replace the
\* whole in-memory board by a stored one; they are no card actions.)
C13_MembershipByAddAndDelete ==
    [][ step'.op \notin {"refresh", "switch"}
          => /\ CASE step'.op = "add" ->
                      /\ Len(board'.cards) = Len(board.cards) + 1
                      /\ SubSeq(Ids(board'.cards), 1, Len(board.cards))
                           = Ids(board.cards)
                      /\ ~HasCard(board, step'.card)
                      /\ board'.cards[Len(board'.cards)].id = step'.card
                  [] step'.op = "delete" ->
                      /\ HasCard(board, step'.card)
                      /\ Ids(board'.cards)
                           = SelectSeq(Ids(board.cards),
                                       LAMBDA i : i # step'.card)
                      /\ Len(board'.cards) = Len(board.cards) - 1
                  [] OTHER -> Ids(board'.cards) = Ids(board.cards)
             /\ \A i \in 1..Len(board.cards) :
                   board.cards[i].archived
                     => /\ HasCard(board', board.cards[i].id)
                        /\ CardOf(board', board.cards[i].id).archived
      ]_vars

\* C13 witness: a card has just been archived; it is still in the
\* collection and in no visible list.
C13_Witness ==
    /\ step.op = "archive"
    /\ HasCard(board, step.card)
    /\ CardOf(board, step.card).archived
    /\ \A k \in 0..(Len(board.columns) - 1) :
          \A i \in 1..Len(column_cards(board, FALSE, <<>>, k)) :
             column_cards(board, FALSE, <<>>, k)[i].id # step.card

\* The commands that take a card argument and resolve it.
CardCommands == {"move", "hoist", "demote", "archive", "delete"}

\* The number of non-archived cards of b that a stable sort by order
\* puts before card number p of b.cards.
Before(b, p) ==
    Cardinality({q \in 1..Len(b.cards) :
                   /\ ~b.cards[q].archived
                   /\ \/ b.cards[q].order < b.cards[p].order
                      \/ b.cards[q].order = b.cards[p].order /\ q < p})

C15_DisplayNumberAddresses ==
    [][ (cli'.cmd \in CardCommands /\ cli'.err \in {"none", "CardNotFound"}
           /\ parse_usize(cli'.token) # ParseErr)
          => LET shown == list(CliBoard)
                 N == parse_usize(cli'.token)
             IN  \A k \in 1..Len(shown) :
                    N \in 1..Len(shown[k]) => cli'.resolved = shown[k][N]
      ]_vars

\* The non-archived cards of board b in the column named col.
InColumn(b, col) ==
    {i \in 1..Len(b.cards) : b.cards[i].column = col /\ ~b.cards[i].archived}

\* No column of board b holds more non-archived cards than its limit.
WithinLimits(b) ==
    \A k \in 1..Len(b.columns) :
       b.columns[k].wip_limit # NoLimit
         => Cardinality(InColumn(b, b.columns[k].name))
              <= b.columns[k].wip_limit

\* C16 (as claimed): for a column with a WIP limit the number of
\* non-archived cards of its name never exceeds the limit, on the
\* in-memory board and on every stored board.
C16_WipLimitRespected ==
    /\ WithinLimits(board)
    /\ \A n \in DOMAIN disk : WithinLimits(FromDoc(disk[n]))

\* C17: an affirmative key in Confirm mode removes exactly the selected
\* card from the collection (gone, not archived), leaves every other card
\* as it was, saves the board, re-clamps the row and returns to Normal;
\* if it was the only card of its column, the column's visible list is
\* empty afterwards.
C17_ConfirmedDelete ==
    [][ ConfirmYes
          => LET id == Current
             IN  /\ id # NoCard
                 /\ step'.op = "delete" /\ step'.card = id
                 /\ ~HasCard(board', id)
                 /\ board'.cards
                      = SelectSeq(board.cards, LAMBDA c : c.id # id)
                 /\ Len(board'.cards) = Len(board.cards) - 1
                 /\ board'.columns = board.columns
                 /\ Len(step'.calls) = 1
                 /\ step'.calls[1].op = "save_board"
                 /\ step'.calls[1].ok
                      => Store_load_board(disk', board'.name) = board'
                 /\ selected_col' = selected_col
                 /\ selected_row' = Clamped(selected_row, Len(Visible'))
                 /\ mode' = "Normal"
                 /\ Siblings(board, id, CardOf(board, id).column) = {}
                      => Visible' = <<>> ]_vars

\* C17 witness: the only card of the first column of the default board
\* has been deleted; the column's visible list is empty.
C17_Witness ==
    /\ step.op = "delete"
    /\ board.name = "default"
    /\ selected_col = 0 /\ selected_row = 0
    /\ Visible = <<>>
    /\ ~HasCard(board, step.card)
    /\ Len(board.cards) = Len(StoredDefault.cards) - 1
    /\ mode = "Normal"

\* C18 (as claimed): after an affirmative key in Confirm mode has deleted
\* a card, the status message of the resulting Normal state is a
\* confirmation of that deletion.
C18_DeleteConfirmed ==
    step.op = "delete" => (mode = "Normal" /\ message.text = "Deleted: ")

\* The ids of the cards of a board.
IdSet(b) == {b.cards[i].id : i \in 1..Len(b.cards)}

\* C19: a card is removed from the board the engine holds only in a step
\* where the mode is Confirm and the key is affirmative (reload and board
\* switch replace the whole board by a stored one); Confirm is entered only by the
\* delete key in Normal mode while a card is selected, and without a
\* selected card the delete key changes nothing; the mode is Confirm
\* exactly when a pending confirm action is recorded; and the selected
\* card does not change from entering Confirm to the affirmative key, so
\* the card removed is the one selected when Confirm was entered.
C19_DeleteOnlyByConfirm ==
    /\ [](mode = "Confirm" <=> pending_confirm # NoConfirm)
    /\ [][ /\ (step'.op \notin {"refresh", "switch"}
                /\ IdSet(board) \ IdSet(board') # {})
              => /\ mode = "Confirm" /\ ConfirmYes
                 /\ IdSet(board) \ IdSet(board') = {Current}
           /\ (mode' = "Confirm" /\ mode # "Confirm")
              => /\ mode = "Normal" /\ NormalDelete
                 /\ Current # NoCard
                 /\ Current' = Current
           /\ (NormalDelete /\ Current = NoCard)
              => UNCHANGED <<mode, pending_confirm, board, disk>>
           /\ (mode = "Confirm" /\ mode' = "Confirm")
              => Current' = Current ]_vars

\* C19 witness: the second card of the second column was selected, the
\* delete key entered Confirm, and 'y' has removed that card.
C19_Witness ==
    /\ step.op = "delete"
    /\ step.card = 3
    /\ ~HasCard(board, 3)
    /\ selected_col = 1
    /\ mode = "Normal"
    /\ pending_confirm = NoConfirm

\* C20: every cancel path returns to Normal and leaves the board, the
\* stored board documents and the stored configuration unchanged (no
\* gateway call is made): a non-affirmative key in Confirm, Escape or an
\* empty-buffer Enter in Insert, and Escape, 'q' or Enter on the active
\* board in BoardPicker.
C20_CancelChangesNothing ==
    [][ ( \/ ConfirmOther
          \/ InsertEsc
          \/ InsertEnter /\ input_buf = <<>>
          \/ PickerCancel
          \/ ( /\ board_selected < Len(board_list)
               /\ board_list[board_selected + 1] = board.name
               /\ PickerEnter ) )
        => /\ mode' = "Normal"
           /\ step'.calls = <<>>
           /\ UNCHANGED <<board, disk, config>> ]_vars

\* C20 witness: the board picker was opened and left again by a cancel
\* path (Escape, 'q' or Enter on the active board): nothing has changed.
C20_Witness ==
    /\ keys = 2
    /\ board_list # <<>>
    /\ mode = "Normal"
    /\ step = Idle
    /\ message = NoMessage
    /\ config = RepoConfig_default
    /\ board = StoredDefault
    /\ disk["default"] = ToDoc(StoredDefault)

\* C21: in every mode Ctrl+C is handled while the loop runs; it sets the
\* quit flag and changes nothing else of the application or the store;
\* once the flag is set no further event is handled (so the flag is never
\* cleared).
C21_ForceQuit ==
    /\ [](~should_quit /\ ~panicked /\ keys < MaxKeys => ENABLED CtrlC)
    /\ [][ /\ CtrlC => /\ should_quit'
                       /\ step'.calls = <<>>
                       /\ UNCHANGED <<board, mode, selected_col,
                                      selected_row, input_buf, search_buf,
                                      search_active, message,
                                      pending_confirm, pending_g,
                                      board_list, board_selected, disk,
                                      config>>
           /\ ~should_quit
           /\ should_quit' => keys' = keys + 1 ]_vars

\* C21 witness: Ctrl+C was pressed in Confirm mode: the flag is set, the
\* mode and the pending action are as they were.
C21_Witness ==
    /\ should_quit
    /\ mode = "Confirm"
    /\ pending_confirm = "Delete"
    /\ message = Msg("Delete this card? (y/n)", <<>>)

\* The cards of board b whose ids board a does not have.
NewCards(a, b) == SelectSeq(b.cards, LAMBDA c : ~HasCard(a, c.id))

\* What Enter in Insert mode is claimed to do with a non-empty buffer, the
\* part that does not depend on the save's outcome.
C22_CardAdded ==
    /\ Len(board'.cards) = Len(board.cards) + 1
    /\ \A i \in 1..Len(board.cards) : board'.cards[i] = board.cards[i]
    /\ Len(NewCards(board, board')) = 1
    /\ LET card == NewCards(board, board')[1]
           col == board.columns[selected_col + 1].name
       IN  /\ ~card.archived
           /\ card.title = input_buf
           /\ card.column = col
           /\ card.order = next_order(board, col)
    /\ step'.calls \in {<<Call("save_board", TRUE)>>,
                        <<Call("save_board", FALSE)>>}
    /\ input_buf' = <<>>
    /\ mode' = "Normal"

\* C22 (as claimed): in Insert mode, Enter with a non-empty buffer creates
\* exactly one new non-archived card in the selected column with the buffer
\* as title and the column's next_order as order, saves, empties the buffer
\* and returns to Normal; when the save succeeded the document is the board
\* and the selection is the last row of the selected column, which shows
\* the new card.
C22_InsertEnterAdds ==
    [][ InsertEnter /\ input_buf # <<>>
          => /\ selected_col < Len(board.columns)
             /\ C22_CardAdded
             /\ step'.calls = <<Call("save_board", TRUE)>>
                  => /\ disk'[board'.name] = ToDoc(board')
                     /\ Len(Visible') > 0
                     /\ selected_row' = Len(Visible') - 1
                     /\ Visible'[selected_row' + 1].id = step'.card
                     /\ ~HasCard(board, step'.card) ]_vars

\* The part of C22 that the code keeps: whenever the selected column exists
\* and the new card is not hidden by the active filter.
C22_InsertEnterShown ==
    [][ ( /\ InsertEnter /\ input_buf # <<>>
          /\ selected_col < Len(board.columns)
          /\ (search_active => contains(to_lowercase(input_buf),
                                        to_lowercase(search_buf))) )
          => /\ C22_CardAdded
             /\ step'.calls = <<Call("save_board", TRUE)>>
                  => /\ disk'[board'.name] = ToDoc(board')
                     /\ Len(Visible') > 0
                     /\ selected_row' = Len(Visible') - 1
                     /\ Visible'[selected_row' + 1].id = step'.card
                     /\ ~HasCard(board, step'.card) ]_vars

\* The ids of the non-archived cards of board b whose column is named col.
LiveIds(b, col) ==
    {b.cards[i].id : i \in {j \in 1..Len(b.cards) :
                              b.cards[j].column = col /\ ~b.cards[j].archived}}

\* The ids in a sequence of cards.
IdsOf(cards) == {cards[i].id : i \in 1..Len(cards)}

\* C23: Enter in Search mode returns to Normal with the filter active and
\* its text kept; Escape in Search mode and Escape in Normal mode
\* deactivate the filter, empty its buffer and re-clamp the row to the
\* selected column's unfiltered list, and afterwards the visible list of
\* every column holds all the non-archived cards of the column's name.
C23_SearchEnterAndEscape ==
    [][ /\ SearchEnter => /\ mode' = "Normal"
                          /\ search_active /\ search_active'
                          /\ search_buf' = search_buf
        /\ SearchEsc \/ NormalEsc
             => /\ mode' = "Normal"
                /\ ~search_active'
                /\ search_buf' = <<>>
                /\ selected_row' = Clamped(selected_row, Len(Visible'))
                /\ \A i \in 0..(Len(board'.columns) - 1) :
                      IdsOf(column_cards(board', search_active',
                                         search_buf', i))
                        = LiveIds(board', board'.columns[i + 1].name)
                /\ Len(Visible') > 0 => selected_row' < Len(Visible') ]_vars

\* C23 witness: Search mode was left by Enter with a filter that hides a
\* card of the selected column: the filter is still active in Normal mode.
C23_Witness ==
    /\ mode = "Normal"
    /\ search_active
    /\ search_buf # <<>>
    /\ selected_row = 0
    /\ Len(Visible) > 0
    /\ IdsOf(Visible) # LiveIds(board, board.columns[selected_col + 1].name)

\* The filter texts the claim about the visible list is checked for: the
\* empty text, every single character, the lower-case "b" included, and
\* the two-character texts that can be typed.
FilterChars == Chars \cup {"b"}
FilterTexts ==
    {<<>>} \cup {<<c>> : c \in FilterChars}
           \cup {<<c, d>> : c \in Chars, d \in Chars}

\* Two characters are the same letter, whatever their case.
SameLetter(x, y) == x = y \/ {x, y} = {"b", "B"}

\* The text occurs in the title, case ignored.
Matches(title, text) ==
    \E k \in 0..(Len(title) - Len(text)) :
        \A i \in 1..Len(text) : SameLetter(title[k + i], text[i])

\* The positions in board b of the cards that column index col shows under
\* the given filter state.
ShownAt(b, active, buf, col) ==
    {i \in 1..Len(b.cards) :
        /\ b.cards[i].column = b.columns[col + 1].name
        /\ ~b.cards[i].archived
        /\ (active /\ buf # <<>>) => Matches(b.cards[i].title, buf)}

\* C24: for the board in memory, every column and every filter state, the
\* visible list holds exactly the cards with the column's name that are not
\* archived and, when search is active with a non-empty filter, whose
\* title contains the filter text case-insensitively, each once, ordered by
\* order ascending; an active empty filter hides nothing.
C24_VisibleListExact ==
    \A col \in 0..(Len(board.columns) - 1), active \in BOOLEAN,
       buf \in FilterTexts :
        LET cards == column_cards(board, active, buf, col)
            shown == ShownAt(board, active, buf, col)
        IN  /\ Len(cards) = Cardinality(shown)
            /\ \A i \in shown : \E k \in 1..Len(cards) :
                                    cards[k] = board.cards[i]
            /\ \A k \in 1..Len(cards) : \E i \in shown :
                                    cards[k] = board.cards[i]
            /\ \A j, k \in 1..Len(cards) :
                  j < k => cards[j].order <= cards[k].order
            /\ column_cards(board, TRUE, <<>>, col)
                  = column_cards(board, FALSE, buf, col)

\* C24 witness: the filter "B" is active on the column doing of the default
\* board, which then shows one card of two; the lower-case filter shows
\* the same card and a text in no title shows none.
C24_Witness ==
    /\ search_active
    /\ search_buf = <<"B">>
    /\ selected_col = 1
    /\ Len(Visible) = 1
    /\ Len(column_cards(board, FALSE, search_buf, selected_col)) = 2
    /\ column_cards(board, TRUE, <<"b">>, selected_col) = Visible
    /\ column_cards(board, TRUE, <<"a", "B">>, selected_col) = <<>>

\* C25: whenever the mode is BoardPicker and the list is non-empty the
\* picker's index is an index of the list; opening the picker snapshots
\* the names of the stored boards and selects the active board's; down and
\* up move the index by one and stop at the ends; when enumerating the
\* boards fails the mode stays Normal with a failure message.
C25_PickerIndexValid ==
    /\ [](mode = "BoardPicker" /\ board_list # <<>>
            => board_selected < Len(board_list))
    /\ [][ /\ NormalBoardPicker
               => IF step'.calls = <<Call("list_boards", TRUE)>>
                  THEN /\ mode' = "BoardPicker"
                       /\ {board_list'[i] : i \in 1..Len(board_list')}
                            = DOMAIN disk
                       /\ Len(board_list') = Cardinality(DOMAIN disk)
                       /\ board_selected' < Len(board_list')
                       /\ board_list'[board_selected' + 1] = board.name
                  ELSE /\ mode' = "Normal"
                       /\ message'.text = "Failed to list boards: "
                       /\ UNCHANGED <<board_list, board_selected>>
           /\ PickerDown
               => /\ board_list' = board_list
                  /\ board_selected' =
                       IF board_selected + 1 < Len(board_list)
                       THEN board_selected + 1 ELSE board_selected
           /\ PickerUp
               => /\ board_list' = board_list
                  /\ board_selected' =
                       IF board_selected = 0 THEN 0
                       ELSE board_selected - 1 ]_vars

\* C25 witness: the picker was opened on the active board and the index
\* moved down to the last name of the list.
C25_Witness ==
    /\ mode = "BoardPicker"
    /\ Len(board_list) = 3
    /\ board_selected = Len(board_list) - 1
    /\ board_list[board_selected + 1] # board.name

\* What 'g' does in Normal mode: the first of a pair sets the prefix and
\* leaves the row, the second jumps to row 0 and clears the prefix; and
\* the prefix is set by no other step.
C26_JumpOnSecondG ==
    /\ NormalG /\ ~pending_g => pending_g' /\ selected_row' = selected_row
    /\ NormalG /\ pending_g => ~pending_g' /\ selected_row' = 0
    /\ ~pending_g /\ pending_g' => NormalG

\* C26 (as claimed): the jump to the top fires only on the second of two
\* consecutive 'g' keys; any other input received while the prefix is
\* pending clears it; the prefix is never pending outside Normal mode.
C26_PrefixAsClaimed ==
    /\ [](pending_g => mode = "Normal")
    /\ [][ /\ C26_JumpOnSecondG
           /\ pending_g /\ ~NormalG => ~pending_g' ]_vars

\* C26 (amended): as claimed, except that the two inputs that end the
\* session, 'q' and Ctrl+C, leave the prefix as it is; every other input
\* received while the prefix is pending clears it.
C26_Prefix ==
    /\ [](pending_g => mode = "Normal")
    /\ [][ /\ C26_JumpOnSecondG
           /\ pending_g /\ ~NormalG /\ ~should_quit' => ~pending_g'
           /\ pending_g /\ should_quit' => pending_g' ]_vars

\* C26 witness: one 'g' was pressed on the second row: the prefix is
\* pending and the row has not moved.
C26_Witness ==
    /\ pending_g
    /\ mode = "Normal"
    /\ selected_col = 1
    /\ selected_row = 1

\* C27 (as claimed): while the board in memory has a column, the selected column is
\* one of its column indices, in every reachable state (after a refresh
\* and after a board switch, successful or failed, included); column-left
\* at the first column and column-right at the last change neither the
\* column nor the row; 'h' and 'l' re-clamp the row to the visible list of
\* the column they move to, and after every change of the selected
\* column the row is within that list.
C27_SelectedColumnValid ==
    /\ [](Len(board.columns) > 0 => selected_col < Len(board.columns))
    /\ [][ /\ NormalLeft /\ selected_col = 0
               => UNCHANGED <<selected_col, selected_row, board>>
           /\ NormalRight /\ selected_col + 1 = Len(board.columns)
               => UNCHANGED <<selected_col, selected_row, board>>
           /\ NormalLeft /\ selected_col > 0
               => /\ selected_col' = selected_col - 1
                  /\ selected_row' = Clamped(selected_row, Len(Visible'))
           /\ NormalRight /\ selected_col + 1 < Len(board.columns)
               => /\ selected_col' = selected_col + 1
                  /\ selected_row' = Clamped(selected_row, Len(Visible'))
           /\ selected_col' # selected_col
               => IF Len(Visible') = 0 THEN selected_row' = 0
                  ELSE selected_row' < Len(Visible') ]_vars

\* The cards (by id) that the stored document of the board in memory holds
\* and the board in memory does not: written by another process since the
\* engine loaded the board.
Unseen == IdSet(Store_load_board(disk, board.name)) \ IdSet(board)

\* C28: the engine's save takes no lock and compares nothing: whatever
\* another process has written to the document since the engine loaded
\* it, a mutating transition whose save succeeds replaces the whole
\* document by the board in memory, so every card the other process added
\* is gone from the document; a successful refresh takes the stored
\* document, the other process's cards included, so a save after it loses
\* nothing.
C28_ExternalWriteLost ==
    [][ /\ step'.op \in MutatingOps
           /\ step'.calls = <<Call("save_board", TRUE)>>
           /\ ~ExternalAdd
             => /\ disk'[board'.name] = ToDoc(board')
                /\ Unseen' = {}
                /\ \A id \in Unseen :
                      ~HasCard(Store_load_board(disk', board'.name), id)
        /\ step'.op = "refresh"
           /\ step'.calls = <<Call("load_config", TRUE),
                               Call("load_board", TRUE)>>
           /\ ~ExternalAdd
             => /\ board' = Store_load_board(disk, config.default_board)
                /\ Unseen' = {}
                /\ disk' = disk ]_vars

\* C28 witness: `kuk add` wrote a card to the active board's document
\* during the session, and a mutating transition of the engine has since
\* saved: the card is in neither the document nor the board in memory.
C28_Witness ==
    /\ cli.cmd = "add" /\ cli.err = "none"
    /\ config.default_board = board.name
    /\ step.op \in MutatingOps
    /\ step.calls = <<Call("save_board", TRUE)>>
    /\ ~HasCard(board, cli.resolved)
    /\ ~HasCard(Store_load_board(disk, board.name), cli.resolved)
    /\ disk[board.name] = ToDoc(board)

\* The persisted documents: the board files and, when it exists, the
\* configuration file.
Documents ==
    [boards |-> disk,
     config |-> IF "config.json" \in exists THEN Some(config) ELSE None]

\* C29 (as claimed): a gateway call that returns an error leaves every
\* persisted document as it was; init on an initialized repository fails
\* with AlreadyInitialized, create_board on an existing name fails and
\* keeps the existing document, load_board of a name without document
\* fails with BoardNotFound, and every load, save, list and create before
\* init fails with NotInitialized.
C29_FailureChangesNothing ==
    [][ /\ result'.err # "none" => UNCHANGED Documents
        /\ StoreInit /\ is_initialized
             => result'.err = "AlreadyInitialized"
        /\ result'.op = "create_board" /\ is_initialized
           /\ result'.arg.name \in BoardFiles(disk)
             => /\ result'.err \notin {"none", "NotInitialized"}
                /\ disk'[result'.arg.name] = disk[result'.arg.name]
        /\ result'.op = "load_board" /\ is_initialized
           /\ result'.arg.name \notin BoardFiles(disk)
             => result'.err = "BoardNotFound"
        /\ result'.op \notin {"none", "init"} /\ ~is_initialized
             => result'.err = "NotInitialized" ]_vars

\* The part of C29 that the code keeps: the four named failures, and every
\* failing call other than init changes nothing.
C29_FailuresOtherThanInit ==
    [][ /\ result'.err # "none" /\ result'.op # "init"
             => UNCHANGED Documents
        /\ result'.err \in {"AlreadyInitialized", "NotInitialized",
                             "BoardNotFound", "Other"}
             => UNCHANGED Documents
        /\ StoreInit /\ is_initialized
             => result'.err = "AlreadyInitialized"
        /\ result'.op = "create_board" /\ is_initialized
           /\ result'.arg.name \in BoardFiles(disk)
             => /\ result'.err = "Other"
                /\ disk'[result'.arg.name] = disk[result'.arg.name]
        /\ result'.op = "load_board" /\ is_initialized
           /\ result'.arg.name \notin BoardFiles(disk)
             => result'.err = "BoardNotFound"
        /\ result'.op \notin {"none", "init"} /\ ~is_initialized
             => result'.err = "NotInitialized" ]_vars

\* C30: a save_board that succeeds leaves a document from which
\* load_board of the board's name yields a board equal to the saved one:
\* same name, same columns with their WIP limits, same cards in the same
\* order, each equal in every field; the previous document of that name is
\* replaced as a whole, so a card it held that the saved board does not
\* hold is gone, and no other document changes; and a load_board of that
\* name made right after the save returns the saved board.
C30_SaveLoadRoundTrip ==
    [][ /\ result'.op = "save_board" /\ result'.err = "none"
             => LET b == result'.arg.board
                    loaded == Store_load_board(disk', b.name)
                IN  /\ loaded = b
                    /\ loaded.name = b.name
                    /\ loaded.columns = b.columns
                    /\ Len(loaded.cards) = Len(b.cards)
                    /\ \A i \in 1..Len(b.cards), f \in CardFields :
                          loaded.cards[i][f] = b.cards[i][f]
                    /\ b.name \in BoardFiles(disk)
                         => \A id \in IdSet(Store_load_board(disk, b.name))
                                      \ IdSet(b) : ~HasCard(loaded, id)
                    /\ \A n \in BoardFiles(disk) \ {b.name} :
                          disk'[n] = disk[n]
        /\ result.op = "save_board" /\ result.err = "none"
           /\ result'.op = "load_board"
           /\ result'.arg.name = result.arg.board.name
             => /\ result'.err \in {"none", "Io"}
                /\ result'.err = "none"
                     => result'.value.board = result.arg.board ]_vars

\* C30 witness: load_board has returned the board with the card that has
\* every field set next to the bare one; the stored document is not the
\* board (the bare card's document has no assignee), and before the save
\* the document held nothing of it.
C30_Witness ==
    /\ result.op = "load_board"
    /\ result.err = "none"
    /\ result.arg.name = "backlog"
    /\ Len(result.value.board.cards) = 2
    /\ result.value.board.cards[1] = FullCard
    /\ result.value.board.cards[1].archived
    /\ result.value.board.cards[2].description = Some("")
    /\ result.value.board.cards[2].assignee = None
    /\ "assignee" \notin DOMAIN disk["backlog"].cards[2]
    /\ disk["backlog"].cards[1].assignee = "ann"

\* What `kuk board switch` does with a name that has no document, and
\* what add and list act on: the switch fails with BoardNotFound and
\* leaves the configuration; a successful switch writes the name of an
\* existing document; add writes to the document of the configured board
\* and to no other; list prints the cards of the configured board.
C31_SwitchAddList ==
    /\ result'.op = "board switch" /\ result' # result /\ is_initialized
       /\ result'.arg.name \notin BoardFiles(disk)
         => /\ result'.err = "BoardNotFound"
            /\ UNCHANGED <<config, disk, exists>>
    /\ result'.op = "board switch" /\ result' # result
       /\ result'.err = "none"
         => /\ config'.default_board = result'.arg.name
            /\ result'.arg.name \in BoardFiles(disk')
    /\ cli'.cmd = "add" /\ commands' # commands /\ cli'.err = "none"
         => /\ BoardFiles(disk') = BoardFiles(disk)
            /\ \A n \in BoardFiles(disk) \ {config.default_board} :
                  disk'[n] = disk[n]
            /\ HasCard(Store_load_board(disk', config.default_board),
                       cli'.resolved)
    /\ cli'.cmd = "list" /\ commands' # commands /\ cli'.err = "none"
         => cli'.out = list(Store_load_board(disk, config.default_board))

\* C31 (as claimed): `kuk board switch` to a name without document fails
\* with BoardNotFound and leaves the configured board; after any sequence
\* of init, board create and board switch commands the configuration of an
\* initialized repository names a board that has a document; add and list
\* act on that board.
C31_ActiveBoardExists ==
    /\ [](is_initialized
            => /\ "config.json" \in exists
               /\ config.default_board \in BoardFiles(disk))
    /\ [][C31_SwitchAddList]_vars

\* The part of C31 that the code keeps: the steps are as claimed, and once
\* an init has succeeded the configured board has a document.
C31_AfterCompleteInit ==
    /\ []("index.json" \in exists
            => /\ "config.json" \in exists
               /\ config.default_board \in BoardFiles(disk))
    /\ [][C31_SwitchAddList]_vars

\* A label list holds no label twice.
NoDuplicate(labels) ==
    \A i, j \in 1..Len(labels) : labels[i] = labels[j] => i = j

\* No card of any stored board has a label twice.
NoDuplicateLabels ==
    \A n \in BoardFiles(disk) :
        LET b == Store_load_board(disk, n)
        IN  \A i \in 1..Len(b.cards) : NoDuplicate(b.cards[i].labels)

\* What `kuk label` does to the addressed card's labels when it succeeds:
\* add appends a label the card lacks and leaves the list when the card
\* has it; remove takes the label out and keeps the others in order; no
\* other card's labels change.
C32_LabelStep ==
    \A t \in {cli'.token} \cap Tokens, action \in {"add", "remove"},
       tag \in Tags :
        cli'.cmd = "label" /\ cli'.err = "none"
        /\ CliLabelWith(t, action, tag)
          => LET old == Store_load_board(disk, config.default_board)
                 new == Store_load_board(disk', config.default_board)
                 id == cli'.resolved
                 was == CardOf(old, id).labels
                 now == CardOf(new, id).labels
             IN  /\ id = resolve_card_id(old, t)
                 /\ Ids(new.cards) = Ids(old.cards)
                 /\ \A i \in 1..Len(old.cards) :
                       old.cards[i].id # id => new.cards[i] = old.cards[i]
                 /\ action = "add" /\ has_label(was, tag) => now = was
                 /\ action = "add" /\ ~has_label(was, tag)
                      => now = Append(was, tag)
                 /\ action = "remove"
                      => /\ ~has_label(now, tag)
                         /\ now = SelectSeq(was, LAMBDA l : l # tag)
                 /\ NoDuplicate(was) => NoDuplicate(now)

\* C32 (as claimed): after any sequence of card-creating and label
\* commands no card's label list holds a label twice; adding a label the
\* card has leaves the list, and labels keep their insertion order.
C32_LabelsAreSets ==
    /\ []NoDuplicateLabels
    /\ [][C32_LabelStep]_vars

\* The part of C32 that the code keeps: what the label command does.
C32_LabelCommand == [][C32_LabelStep]_vars


\* The non-archived cards of each column of the board have pairwise
\* distinct order values.
OrdersDistinct(b) ==
    \A i, j \in 1..Len(b.cards) :
        /\ i # j
        /\ ~b.cards[i].archived /\ ~b.cards[j].archived
        /\ b.cards[i].column = b.cards[j].column
        => b.cards[i].order # b.cards[j].order

\* The card operations of the interactive engine, by the name the step
\* records.
CardOps == {"add", "move_right", "move_left", "hoist", "demote",
            "archive", "delete"}

\* C33, one step: a card operation on a board whose orders are distinct
\* per column leaves them distinct, in memory and in every stored board.
C33_Step ==
    step'.op \in CardOps /\ OrdersDistinct(board)
    => /\ OrdersDistinct(board')
       /\ \A n \in BoardFiles(disk) :
              OrdersDistinct(FromDoc(disk[n]))
              => OrdersDistinct(FromDoc(disk'[n]))

\* C33: starting from boards in which the non-archived cards of each
\* column have pairwise distinct order values, every add, move, hoist,
\* demote, archive and delete keeps them pairwise distinct: the in-memory
\* board and every stored board have distinct orders per column in every
\* reachable state, and each card operation preserves the property.
C33_OrdersStayDistinct ==
    /\ [](/\ OrdersDistinct(board)
          /\ \A n \in BoardFiles(disk) : OrdersDistinct(FromDoc(disk[n])))
    /\ [][C33_Step]_vars

\* C33 happens: a hoist has just renumbered a column that shows two cards.
C33_Witness ==
    /\ step.op = "hoist"
    /\ \E i, j \in 1..Len(board.cards) :
           /\ i # j
           /\ board.cards[i].id = step.card
           /\ board.cards[j].column = board.cards[i].column
           /\ ~board.cards[j].archived
           /\ board.cards[j].order > 0


\* C33 for the commands (CliSpec): every stored board keeps distinct order
\* values per column under the CLI's add, move, hoist, demote, archive
\* and delete, addressed by number or by identifier.
C33_StoredOrdersDistinct ==
    \A n \in BoardFiles(disk) : OrdersDistinct(FromDoc(disk[n]))


\* x is listed before y in the card list of column col_idx (0-based) of
\* the board, no filter applied.
ListedBefore(b, col_idx, x, y) ==
    LET cards == column_cards(b, FALSE, <<>>, col_idx)
    IN  \E i, j \in 1..Len(cards) :
            i < j /\ cards[i].id = x /\ cards[j].id = y

\* The same under the session's filter: the list the screen shows.
ShownBefore(b, col_idx, x, y) ==
    LET cards == column_cards(b, search_active, search_buf, col_idx)
    IN  \E i, j \in 1..Len(cards) :
            i < j /\ cards[i].id = x /\ cards[j].id = y

\* C34, one step: after a card operation, two cards other than the card
\* acted on that one column listed in some order are still listed in that
\* order.
C34_Step ==
    step'.op \in CardOps
    => \A col_idx \in 0..(Len(board.columns) - 1),
          x, y \in IdsOf(board.cards) \ {step'.card} :
            /\ ListedBefore(board, col_idx, x, y)
               => ListedBefore(board', col_idx, x, y)
            /\ ShownBefore(board, col_idx, x, y)
               => ShownBefore(board', col_idx, x, y)

\* C34: add, move, hoist, demote, archive and delete never change the
\* relative visible order of the other cards: of two non-archived cards of
\* one column that are not the card acted on, the one listed first before
\* the operation is still listed first after it.
C34_OthersKeepTheirOrder == [][C34_Step]_vars

\* C34 happens: a hoist has acted on a column that lists two other cards.
C34_Witness ==
    /\ step.op = "hoist"
    /\ \E col_idx \in 0..(Len(board.columns) - 1) :
          \E x, y \in IdsOf(board.cards) \ {step.card} :
              /\ ListedBefore(board, col_idx, x, y)
              /\ \E i \in 1..Len(board.cards) :
                    /\ board.cards[i].id = step.card
                    /\ board.cards[i].column = board.columns[col_idx + 1].name


\* C34 for the commands (CliSpec): a command that succeeded keeps the
\* listing order of the cards other than the one it resolved.
C34_CliOthersKeepTheirOrder ==
    [][cli'.err = "none" /\ cli' # cli
       => LET old == CliBoard
              new == Store_load_board(disk', config'.default_board)
          IN  \A col_idx \in 0..(Len(old.columns) - 1),
                 x, y \in IdsOf(old.cards) \ {cli'.resolved} :
                   ListedBefore(old, col_idx, x, y)
                   => ListedBefore(new, col_idx, x, y)]_vars


\* The card with the id in a sequence of cards that holds it.
CardWithId(cards, id) ==
    cards[CHOOSE i \in 1..Len(cards) : cards[i].id = id]

\* The column of the card a step acted on: the card's column when the
\* key was pressed, the new card's column for an add.
ActedColumn ==
    IF step'.card \in IdsOf(board.cards)
    THEN CardWithId(board.cards, step'.card).column
    ELSE CardWithId(board'.cards, step'.card).column

\* C35, one step of a card operation: the card acted on is the selected
\* card (the new card for an add), and every other card stays in the
\* collection; only a hoist may change it, and then only its order, only
\* when it is a non-archived card of the acted card's column.
C35_Step ==
    step'.op \in CardOps
    => /\ step'.card \in IdsOf(board.cards) \cup IdsOf(board'.cards)
       /\ step'.op # "add" => step'.card = Current
       /\ IdsOf(board'.cards) \ {step'.card}
            = IdsOf(board.cards) \ {step'.card}
       /\ \A id \in IdsOf(board.cards) \ {step'.card} :
             LET old == CardWithId(board.cards, id)
                 new == CardWithId(board'.cards, id)
             IN  /\ step'.op # "hoist" => new = old
                 /\ new = [old EXCEPT !.order = new.order]
                 /\ old.archived \/ old.column # ActedColumn => new = old

\* C35: in the interactive engine move, demote and archive change fields
\* of the selected card only, hoist changes besides only the order field
\* of the other non-archived cards of the same column, and no card action
\* modifies a field of an archived card or of a card in another column.
C35_OnlyTheSelectedCard == [][C35_Step]_vars

\* C35 happens: a hoist has acted in a column that also holds an archived
\* card, while another column holds a card too.
C35_Witness ==
    /\ step.op = "hoist"
    /\ \E i, j, k \in 1..Len(board.cards) :
          /\ board.cards[i].id = step.card
          /\ j # i /\ board.cards[j].column = board.cards[i].column
          /\ board.cards[j].archived
          /\ board.cards[k].column # board.cards[i].column


\* A step that leaves the board, the stored documents and the
\* configuration as they are and calls no gateway operation.
Quiet ==
    /\ board' = board
    /\ disk' = disk
    /\ config' = config
    /\ faults' = faults
    /\ step'.calls = <<>>

\* C36, one step.  The keys of Help mode are those handle_help receives:
\* the force-quit input is taken by handle_key before the mode's handler.
C36_Step ==
    /\ \/ NormalDown \/ NormalUp \/ NormalLeft \/ NormalRight
       \/ NormalG \/ NormalBigG
       \/ PickerDown \/ PickerUp
       => Quiet
    /\ mode \in {"Help", "Search"} => Quiet
    /\ mode = "Help" /\ ~CtrlC
       => /\ mode' \in {"Help", "Normal"}
          /\ should_quit' = should_quit
          /\ UNCHANGED <<selected_col, selected_row, input_buf, search_buf,
                         search_active, message, pending_confirm, pending_g,
                         board_list, board_selected>>
    /\ HelpDismiss => mode' = "Normal"
    /\ HelpOther => mode' = "Help"

C37_Step ==
    step'.op = "refresh"
    => /\ mode = "Normal" /\ mode' = "Normal"
       /\ disk' = disk /\ config' = config
       /\ selected_col' = selected_col
       /\ IF \A i \in 1..Len(step'.calls) : step'.calls[i].ok
          THEN /\ board' = FromDoc(disk'[config'.default_board])
               /\ LET shown == column_cards(board', search_active',
                                            search_buf', selected_col')
                  IN  /\ shown = <<>> => selected_row' = 0
                      /\ shown # <<>> =>
                           selected_row' < Len(shown)
                      /\ selected_row < Len(shown) =>
                           selected_row' = selected_row
               /\ message' = Msg("Board reloaded.", <<>>)
          ELSE /\ board' = board
               /\ selected_row' = selected_row
               /\ message' # NoMessage
               /\ message' # Msg("Board reloaded.", <<>>)

\* C37: the refresh key in Normal mode either succeeds (the in-memory
\* board equals the persisted document of the board named by the
\* persisted configuration, unsaved in-memory changes are discarded, the
\* row is re-clamped, a reloaded message is set) or fails (in-memory board
\* and selection unchanged, a failure message set).
C37_Refresh == [][C37_Step]_vars

\* C37 happens: a refresh has succeeded after a save had failed, so the
\* board in memory is again the stored one.
C37_Witness ==
    /\ step.op = "refresh"
    /\ \A i \in 1..Len(step.calls) : step.calls[i].ok
    /\ save_failed
    /\ board = FromDoc(disk[config.default_board])


\* The documents the server starts on.
StoredDisk ==
    [n \in {"backlog", "default", "empty"} |->
        IF n = "default" THEN ToDoc(StoredDefault)
        ELSE IF n = "backlog" THEN ToDoc(StoredBacklog)
        ELSE ToDoc(StoredEmpty)]

\* The answered requests run one after the other, in the order of the
\* log, each as a whole (load, change, save) on the documents d: the
\* documents they leave, and whether each gets the answer the log holds.
\* A request the log shows failing on I/O writes nothing.
RECURSIVE ServerSerial(_, _, _)
ServerSerial(d, cfg, log) ==
    IF log = <<>> THEN [disk |-> d, same |-> TRUE]
    ELSE LET e == Head(log)
             name == ServerBoardName(cfg, e.req)
             r == ServerHandle(Store_load_board(d, name), e.req, e.new_id)
             status == IF e.status = "Io" THEN "Io"
                       ELSE IF name \notin BoardFiles(d) THEN "BoardNotFound"
                       ELSE r.err
             after == IF status = "none" THEN Store_save_board(d, r.board)
                      ELSE d
             rest == ServerSerial(after, cfg, Tail(log))
         IN  [disk |-> rest.disk, same |-> rest.same /\ status = e.status]

\* The stored documents are those the answered requests leave when run
\* one at a time in the order of their answers, each with its answer.
C38_SerialOutcome ==
    LET serial == ServerSerial(StoredDisk, config, server.log)
    IN  serial.disk = disk /\ serial.same

\* C38: within one server process every mutation handler holds the store
\* lock across its whole load-modify-save sequence, so concurrent
\* mutation requests never lose an update: at most one handler is between
\* lock and answer, and the stored documents are always those the
\* answered requests leave when run one at a time in the order of their
\* answers, each with the answer it got.
C38_NoLostUpdate ==
    /\ Cardinality(server.lock) <= 1
    /\ \A p \in Handlers :
          server.pc[p] \in {"locked", "loaded"} <=> p \in server.lock
    /\ C38_SerialOutcome

\* C38 happens: two add requests for one board were in flight together,
\* both were answered with success and both cards are stored.
C38_Witness ==
    /\ Len(server.log) = 2
    /\ server.log[1].contended
    /\ \A i \in 1..2 :
          /\ server.log[i].req.op = "add"
          /\ server.log[i].status = "none"
          /\ server.log[i].req.board = None
    /\ {server.log[1].new_id, server.log[2].new_id}
         \subseteq IdsOf(FromDoc(disk["default"]).cards)
    /\ server.log[1].new_id # server.log[2].new_id


\* The requests that address a card by the {id} of the path.
ByIdOps == {"move", "archive", "label", "assign", "delete"}

\* Answer j of the log is to a request without a board name that
\* addresses, by its identifier, the card which the add-card request of
\* answer i created, also without a board name; the card has not been
\* deleted in between, the request is well-formed and no I/O failed.
AddressesCreated(log, i, j) ==
    /\ i < j
    /\ log[i].req.op = "add" /\ log[i].req.board = None
    /\ log[i].status = "none"
    /\ log[j].req.op \in ByIdOps /\ log[j].req.board = None
    /\ log[j].req.id = Ulid(log[i].new_id)
    /\ log[j].req.op = "label" => log[j].req.arg \in {"add", "remove"}
    /\ log[j].status # "Io"
    /\ \A k \in (i + 1)..(j - 1) :
          ~(log[k].req.op = "delete" /\ log[k].status = "none"
            /\ log[k].req.id = Ulid(log[i].new_id))

\* C40: all HTTP card endpoints called without a board name act on the
\* same board: whichever board is configured as active, every such
\* request acts on one board, and a card created by the add-card endpoint
\* can then be moved, archived, labelled, assigned and deleted by its
\* identifier through the other endpoints.
C40_EndpointsShareBoard ==
    /\ \A i, j \in 1..Len(server.log) :
          /\ server.log[i].req.board = None
          /\ server.log[j].req.board = None
          => ServerBoardName(config, server.log[i].req)
               = ServerBoardName(config, server.log[j].req)
    /\ \A i, j \in 1..Len(server.log) :
          AddressesCreated(server.log, i, j)
          => server.log[j].status = "none"

\* C40 while the active board is the one named "default": there the
\* created card is found by every endpoint; and the move endpoint finds
\* it whichever board is active.
C40_WhenDefaultIsActive ==
    \A i, j \in 1..Len(server.log) :
        /\ AddressesCreated(server.log, i, j)
        /\ config.default_board = "default"
           \/ server.log[j].req.op = "move"
        => server.log[j].status = "none"


\* The documents a command leaves when it is given the card's identifier
\* and all its gateway calls succeed: load the active board, resolve,
\* change, save (commands::move_card with --to, hoist, demote, archive,
\* delete); the documents as they are when the command ends in an error.
CliOutcome(cmd, d, cfg, id_or_num, to) ==
    LET b == Store_load_board(d, cfg.default_board)
        card_id == resolve_card_id(b, id_or_num)
    IN  IF card_id = NoCard \/ (cmd = "move" /\ ~has_column(b, to)) THEN d
        ELSE IF cmd = "move"
        THEN Store_save_board(d, move_card(b, card_id, to, next_order(b, to)))
        ELSE Store_save_board(d, CliChange(cmd, b, card_id))

\* The operations both front ends have, under the engine's names.
SharedOps ==
    {"move_right", "move_left", "hoist", "demote", "archive", "delete"}

\* C39, one step of the interactive engine that saves: when the session's
\* board was the stored document of the active board, the documents after
\* the key are those the command leaves on the same documents when given
\* the card's identifier (and, for a move, the adjacent column's name).
C39_Step ==
    ( /\ step'.op \in SharedOps
      /\ step'.calls = <<Call("save_board", TRUE)>>
      /\ config.default_board = board.name
      /\ ToDoc(board) = disk[board.name] )
    => LET to == IF step'.op = "move_right"
                 THEN board.columns[selected_col + 2].name
                 ELSE IF step'.op = "move_left"
                 THEN board.columns[selected_col].name
                 ELSE ""
           cmd == IF step'.op \in {"move_right", "move_left"} THEN "move"
                  ELSE step'.op
       IN  /\ resolve_card_id(board, Ulid(step'.card)) = step'.card
           /\ disk' = CliOutcome(cmd, disk, config, Ulid(step'.card), to)

====
